---- MODULE Spec2Model ----
(***************************************************************************)
(* A model of the Loxone audio-server emulation core: the zone registry    *)
(* (zonemanager.ts), the adapter factory and the adapters (backend*.ts),   *)
(* the broadcast hub (broadcastEvent.ts) and the command dispatcher        *)
(* (requesthandler.ts), with the processing of a changed configuration    *)
(* (config.ts).  Adapter objects are numbered in the order in which        *)
(* createBackend constructs them; their timers, handles and streams are    *)
(* kept per object, so that an object replaced in the registry lives on.   *)
(*                                                                         *)
(* Conventions.  A JavaScript string that the code takes apart (a request  *)
(* URL, a group id list) is a sequence of tokens, the separators "/" and   *)
(* "," being tokens of their own; a string used only as a key or a name    *)
(* is a TLA+ string.  A JavaScript value stored in a Track is a tagged     *)
(* record (Num, Str, Arr, Undefined, NaN).  One action is one turn of the  *)
(* event loop; bcast, delivered, calls, rejections and last describe what  *)
(* the turn just taken did.                                                *)
(***************************************************************************)
EXTENDS Integers, Sequences, FiniteSets, TLC

VARIABLES
  players,        \* config.audioserver.musicCFG[0][macID].players, as player ids
  env,            \* process.env: ZONE_<id>_BACKEND and ZONE_<id>_IP per player id
  zone,           \* zonemanager.ts `zone`: player id -> zone record
  setupPc,        \* where setupZones stands: "idle", "await", "done"
  setupIdx,       \* index into players of the zone whose initialize() is awaited
  musicCFG,       \* the players of config.audioserver.musicCFG as it stands now
  pendingCfg,     \* configurations handed to processAudioServerConfig, checksum awaited
  constructed,    \* the adapter objects constructed so far (class, playerid), numbered in order
  setups,         \* calls of setupZones waiting in `await initialize()`
  notifyStream,   \* BackendBeolink.notifyStream per adapter object: "null" or "open"
  streams,        \* live notification streams with a 'data' listener, per adapter object
  timers,         \* number of setInterval timers armed by each adapter object
  pendingGet,     \* adapter objects whose initialize() has its axios.get in flight
  renewGet,       \* axios.get calls in flight issued by the renewal timer, per adapter object
  wsConnections,  \* broadcastEvent.ts wsConnections
  registrations,  \* how many times Register has handed each connection to addWebSocketConnection
  connected,      \* connection.connected of every connection object
  proc,           \* the process: "starting", "serving" or "exited", and its exit code
  listeners,      \* the HTTP servers that are listening: "AppHttp", "msHttp"
  inflight,       \* device calls (axios.put / axios.post) not yet answered
  bcast,          \* messages handed to broadcastEvent in the last turn
  delivered,      \* messages sent by broadcastEvent to each connection in the last turn
  calls,          \* registry functions and adapter methods called in the last turn
  rejections,     \* promises rejected with nobody handling them, in the last turn
  last            \* the operation of the last turn, its arguments and its result

vars == <<players, env, zone, setupPc, setupIdx, musicCFG, pendingCfg, constructed, setups,
          notifyStream, streams, timers, pendingGet, renewGet, wsConnections, registrations,
          proc, listeners, connected, inflight, bcast, delivered, calls, rejections, last>>

cfgVars == <<players, env>>
connVars == <<wsConnections, connected>>

----------------------------------------------------------------------------
(* Bounds of the model *)

MaxZones == 2
MaxConns == 2
MaxInflight == 1
MaxVolume == 3
MaxInstances == 3
MaxRegister == 2

IdPool == <<"14", "15", "5", "7">>
PlayerIds == {IdPool[i] : i \in 1..MaxZones}
UnknownId == "99"
Conns == 1..MaxConns
Instances == 1..MaxInstances

----------------------------------------------------------------------------
(* JavaScript values *)

Undefined == [t |-> "undefined"]
NaN == [t |-> "NaN"]
Null == [t |-> "null"]
Num(n) == [t |-> "number", n |-> n]
Str(s) == [t |-> "string", s |-> s]
Arr(a) == [t |-> "array", a |-> a]

RECURSIVE SeqToSet(_)
SeqToSet(s) == IF s = <<>> THEN {} ELSE {Head(s)} \cup SeqToSet(Tail(s))

----------------------------------------------------------------------------
(* Tracks *)

\* setupZones: the track a zone is created with
DefaultTrack(playerId) ==
  [playerid |-> Str(playerId), coverurl |-> Str(""), station |-> Str(""),
   audiotype |-> Num(2), audiopath |-> Str(""), mode |-> Str("stop"),
   plrepeat |-> Num(0), plshuffle |-> Num(0), duration |-> Num(0), time |-> Num(0),
   power |-> Str("on"), volume |-> Num(0), players |-> Arr(<<playerId>>)]

\* BackendExample.startUpdatingTrack: dummyTrack
ExampleDummyTrack(playerId) ==
  [playerid |-> Str(playerId), title |-> Str("Add .ENV entry"),
   artist |-> Str("Unknown Artist"), album |-> Str("Test Album"),
   coverurl |-> Str("https://dummycover.url/cover.jpg"), audiotype |-> Num(2),
   audiopath |-> Str("/dummy/path"), mode |-> Str("pause"), plrepeat |-> Num(0),
   plshuffle |-> Num(0), duration |-> Num(300), time |-> Num(0), power |-> Str("on"),
   volume |-> Num(10), station |-> Str(""), players |-> Arr(<<>>)]

\* BackendSonos.initialize: dummyTrack
SonosDummyTrack(playerId) ==
  [playerid |-> Str(playerId), title |-> Str("Dummy Track"),
   artist |-> Str("Unknown Artist"), album |-> Str("Test Album"),
   coverurl |-> Str("https://dummycover.url/cover.jpg"), audiotype |-> Num(2),
   audiopath |-> Str("/dummy/path"), mode |-> Str("pause"), plrepeat |-> Num(0),
   plshuffle |-> Num(0), duration |-> Num(300), time |-> Num(0), power |-> Str("on"),
   volume |-> Num(50)]

\* { ...a, ...b }: every own property of b, then those of a that b has not
SpreadMerge(a, b) ==
  [f \in DOMAIN a \cup DOMAIN b |-> IF f \in DOMAIN b THEN b[f] ELSE a[f]]

\* JSON.stringify of an object: a property holding undefined is left out, NaN is null
JsonStringify(obj) ==
  [f \in {g \in DOMAIN obj : obj[g] # Undefined} |->
     IF obj[f] = NaN THEN Null ELSE obj[f]]

\* updateZoneTrack: JSON.stringify({ audio_event: [track] })
AudioEventMessage(track) == [event |-> "audio_event", body |-> <<JsonStringify(track)>>]

----------------------------------------------------------------------------
(* The turn in progress: the state a handler reads and writes, and its log *)

World ==
  [zone |-> zone, musicCFG |-> musicCFG, pendingCfg |-> pendingCfg, constructed |-> constructed,
   setups |-> setups, notifyStream |-> notifyStream, streams |-> streams,
   timers |-> timers, pendingGet |-> pendingGet, renewGet |-> renewGet,
   registrations |-> registrations, proc |-> proc, listeners |-> listeners,
   inflight |-> inflight,
   bcast |-> <<>>, delivered |-> [c \in Conns |-> <<>>],
   calls |-> <<>>, rejections |-> <<>>, ret |-> TRUE]

\* the turn of a process that has not exited takes effect
Commit(w) ==
  /\ proc.state # "exited"
  /\ proc' = w.proc
  /\ listeners' = w.listeners
  /\ zone' = w.zone
  /\ musicCFG' = w.musicCFG
  /\ pendingCfg' = w.pendingCfg
  /\ constructed' = w.constructed
  /\ setups' = w.setups
  /\ notifyStream' = w.notifyStream
  /\ streams' = w.streams
  /\ renewGet' = w.renewGet
  /\ registrations' = w.registrations
  /\ timers' = w.timers
  /\ pendingGet' = w.pendingGet
  /\ inflight' = w.inflight
  /\ bcast' = w.bcast
  /\ delivered' = w.delivered
  /\ calls' = w.calls
  /\ rejections' = w.rejections

----------------------------------------------------------------------------
(* Broadcast hub: broadcastEvent.ts *)

\* wsConnections.forEach: the mutant sends to a connection whether or not it is connected
BroadcastEventNoCheck(w, eventMessage) ==
  [w EXCEPT !.bcast = Append(@, eventMessage),
            !.delivered = [c \in Conns |->
               IF c \in wsConnections THEN Append(@[c], eventMessage) ELSE @[c]]]

BroadcastEvent(w, eventMessage) ==
  [w EXCEPT !.bcast = Append(@, eventMessage),
            !.delivered = [c \in Conns |->
               IF c \in wsConnections /\ connected[c]
               THEN Append(@[c], eventMessage) ELSE @[c]]]

----------------------------------------------------------------------------
(* Zone registry: zonemanager.ts *)

\* the mutant replaces the track by the partial update instead of merging
UpdateZoneTrackReplace(w, playerId, newTrackInfo) ==
  IF playerId \notin DOMAIN w.zone
  THEN [w EXCEPT !.ret = FALSE]
  ELSE BroadcastEvent([w EXCEPT !.zone[playerId].track = newTrackInfo, !.ret = TRUE],
                      AudioEventMessage(newTrackInfo))

\* the mutant broadcasts the track as it was before the merge
UpdateZoneTrackStale(w, playerId, newTrackInfo) ==
  IF playerId \notin DOMAIN w.zone
  THEN [w EXCEPT !.ret = FALSE]
  ELSE BroadcastEvent([w EXCEPT !.zone[playerId].track = SpreadMerge(@, newTrackInfo),
                                !.ret = TRUE],
                      AudioEventMessage(w.zone[playerId].track))

\* the mutant creates the zone it does not find
UpdateZoneTrackUpsert(w, playerId, newTrackInfo) ==
  LET z == IF playerId \in DOMAIN w.zone THEN w.zone
           ELSE (playerId :> [backend |-> "", ip |-> "", backendInstance |-> "null",
                              instance |-> 0, track |-> DefaultTrack(playerId)]) @@ w.zone
      track == SpreadMerge(z[playerId].track, newTrackInfo)
  IN BroadcastEvent([w EXCEPT !.zone = [z EXCEPT ![playerId].track = track], !.ret = TRUE],
                    AudioEventMessage(track))

UpdateZoneTrack(w, playerId, newTrackInfo) ==
  IF playerId \notin DOMAIN w.zone
  THEN [w EXCEPT !.ret = FALSE]
  ELSE LET track == SpreadMerge(w.zone[playerId].track, newTrackInfo)
       IN BroadcastEvent([w EXCEPT !.zone[playerId].track = track, !.ret = TRUE],
                         AudioEventMessage(track))

----------------------------------------------------------------------------
(* Adapter factory: backendFactory.ts *)

backendMap == {"BackendBeolink", "BackendSonos", "BackendExample"}

\* the class of the new instance, or "null"
CreateBackend(backendName) ==
  IF backendName \in backendMap THEN backendName ELSE "null"

----------------------------------------------------------------------------
(* Adapters: initialize() up to its first wait for I/O *)

\* BackendExample.initialize -> startUpdatingTrack
ExampleInitialize(w, playerId) ==
  [UpdateZoneTrack(w, playerId, ExampleDummyTrack(playerId))
     EXCEPT !.timers[w.zone[playerId].instance] = @ + 1]

\* BackendSonos.initialize
SonosInitialize(w, playerId) == UpdateZoneTrack(w, playerId, SonosDummyTrack(playerId))

\* BackendBeolink.initialize -> createNotificationListener: axios.get is sent
BeolinkInitialize(w, playerId) ==
  [w EXCEPT !.pendingGet = @ \cup {w.zone[playerId].instance}]

Initialize(w, playerId) ==
  LET kind == w.zone[playerId].backendInstance
  IN CASE kind = "BackendExample" -> ExampleInitialize(w, playerId)
       [] kind = "BackendSonos" -> SonosInitialize(w, playerId)
       [] kind = "BackendBeolink" -> BeolinkInitialize(w, playerId)

----------------------------------------------------------------------------
(* setupZones *)

Unset == ""
Falsy(s) == s = Unset

\* the zone record of one player
NewZone(playerId, e) ==
  LET fallback == Falsy(e.backend) \/ Falsy(e.ip)
      backend == IF fallback THEN "BackendExample" ELSE e.backend
      ip == IF fallback THEN "127.0.0.1" ELSE e.ip
  IN [backend |-> backend, ip |-> ip,
      backendInstance |-> IF ~Falsy(backend) THEN CreateBackend(backend) ELSE "null",
      track |-> DefaultTrack(playerId)]

\* The loop of setupZones over its players from player i on, as far as it runs
\* without waiting for I/O: it stops at a Beolink initialize(), which waits for the
\* device's answer. Every adapter object constructed gets the next number.
\* fails: the zones whose initialize() rejects at once.
RECURSIVE SetupLoopOver(_, _, _, _)
SetupLoopOver(w, list, i, fails) ==
  IF i > Len(list) THEN [w EXCEPT !.ret = 0]
  ELSE LET playerId == list[i]
           rec == NewZone(playerId, env[playerId])
           instance == IF rec.backendInstance = "null" THEN 0 ELSE Len(w.constructed) + 1
           created == [w EXCEPT !.zone = (playerId :> SpreadMerge(rec, [instance |-> instance])) @@ @,
                                !.constructed = IF instance = 0 THEN @
                                                ELSE Append(@, [kind |-> rec.backendInstance,
                                                                playerid |-> playerId])]
           kind == created.zone[playerId].backendInstance
       IN IF kind = "null" THEN SetupLoopOver(created, list, i + 1, fails)
          ELSE IF playerId \in fails
               THEN SetupLoopOver([created EXCEPT !.calls = Append(@,
                      [fn |-> "initialize", id |-> playerId, outcome |-> "rejected"])],
                      list, i + 1, fails)
          ELSE LET started == Initialize(
                      [created EXCEPT !.calls = Append(@,
                         [fn |-> "initialize", id |-> playerId, outcome |-> "called"])],
                      playerId)
               IN IF kind = "BackendBeolink" THEN [started EXCEPT !.ret = i]
                  ELSE SetupLoopOver(started, list, i + 1, fails)

\* the loop of the call of setupZones made at startup
SetupLoop(w, i, fails) == SetupLoopOver(w, players, i, fails)

\* a call of setupZones that stopped at `await initialize()` is kept with its
\* players, its position and the adapter object it waits for
Awaiting(w, list, startup) ==
  IF w.ret = 0 THEN w
  ELSE [w EXCEPT !.setups = @ \cup {[list |-> list, idx |-> w.ret, inst |-> Len(w.constructed),
                                     startup |-> startup]}]

\* the adapter objects of the model are numbered up to MaxInstances
InstancesInRange(w) == Len(w.constructed) <= MaxInstances

\* setupZones is called (processAudioServerConfig) and runs to its first wait
SetupStart ==
  /\ setupPc = "idle"
  /\ \E fails \in SUBSET SeqToSet(players) :
       LET w == Awaiting(SetupLoop(World, 1, fails), players, TRUE)
       IN /\ InstancesInRange(w)
          /\ Commit(w)
          /\ setupPc' = IF w.ret = 0 THEN "done" ELSE "await"
          /\ setupIdx' = w.ret
          /\ last' = [op |-> "setupZones", fails |-> fails]
  /\ UNCHANGED <<cfgVars, connVars>>

\* createNotificationListener after axios.get, called by initialize(): the stream is
\* opened and listened to, or the error is caught and logged; initialize() then arms
\* the renewal timer and resolves
ListenerOpened(w, a, ok) ==
  [w EXCEPT !.pendingGet = @ \ {a},
            !.notifyStream[a] = IF ok THEN "open" ELSE @,
            !.streams[a] = IF ok THEN @ + 1 ELSE @,
            !.timers[a] = @ + 1]

\* the axios.get of the adapter the startup call of setupZones waits for is
\* answered, and setupZones goes on with the next player
ListenerSettled(ok) ==
  /\ setupPc = "await"
  /\ \E s \in setups :
       /\ s.startup
       /\ s.inst \in pendingGet
       /\ \E fails \in SUBSET SeqToSet(players) :
            LET opened == ListenerOpened([World EXCEPT !.setups = @ \ {s}], s.inst, ok)
                w == Awaiting(SetupLoop(opened, s.idx + 1, fails), players, TRUE)
            IN /\ InstancesInRange(w)
               /\ Commit(w)
               /\ setupPc' = IF w.ret = 0 THEN "done" ELSE "await"
               /\ setupIdx' = w.ret
               /\ last' = [op |-> "listenerSettled", id |-> players[s.idx], ok |-> ok]
  /\ UNCHANGED <<cfgVars, connVars>>

----------------------------------------------------------------------------
(* Connections: webserver handlers *)

\* the mutant takes out a connection that is already in the set
AddWebSocketConnectionToggle(set, connection) ==
  IF connection \in set THEN set \ {connection} ELSE set \cup {connection}

\* addWebSocketConnection: wsConnections.add(connection)
AddWebSocketConnection(set, connection) == set \cup {connection}

\* removeWebSocketConnection: wsConnections.delete(connection)
\* a close handler that leaves the connection in the set
RemoveWebSocketConnectionNone(set, connection) == set

RemoveWebSocketConnection(set, connection) == set \ {connection}

\* handleWebSocketConnect -> addWebSocketConnection
WsConnect(c) ==
  /\ c \notin wsConnections
  /\ wsConnections' = AddWebSocketConnection(wsConnections, c)
  /\ connected' = [connected EXCEPT ![c] = TRUE]
  /\ Commit(World)
  /\ last' = [op |-> "wsConnect", conn |-> c]
  /\ UNCHANGED <<cfgVars, setupPc, setupIdx>>

\* the socket goes away: connection.connected is false, the close event is still to come
WsDrop(c) ==
  /\ c \in wsConnections
  /\ connected[c]
  /\ connected' = [connected EXCEPT ![c] = FALSE]
  /\ Commit(World)
  /\ last' = [op |-> "wsDrop", conn |-> c]
  /\ UNCHANGED <<cfgVars, setupPc, setupIdx, wsConnections>>

\* handleWebSocketClose -> removeWebSocketConnection
WsClose(c) ==
  /\ c \in wsConnections
  /\ ~connected[c]
  /\ wsConnections' = RemoveWebSocketConnection(wsConnections, c)
  /\ Commit(World)
  /\ last' = [op |-> "wsClose", conn |-> c]
  /\ UNCHANGED <<cfgVars, setupPc, setupIdx, connected>>

\* wsServer.on('connect') of a listening server
Accept(c) ==
  /\ listeners # {}
  /\ WsConnect(c)

\* startApplication after `await initializeAudioServer()`: startWebServers
StartWebServers ==
  /\ proc.state = "starting"
  /\ setupPc # "idle"
  /\ Commit([World EXCEPT !.proc.state = "serving", !.listeners = {"AppHttp", "msHttp"}])
  /\ last' = [op |-> "startWebServers"]
  /\ UNCHANGED <<cfgVars, connVars, setupPc, setupIdx>>

\* conn.close(1000, ...) on the connections from c on: a connected connection
\* sends its close frame, one that is not connected any more does nothing
RECURSIVE CloseConnections(_, _, _)
CloseConnections(w, c, open) ==
  IF c > MaxConns THEN w
  ELSE CloseConnections(IF c \in open
                         THEN [w EXCEPT !.calls = Append(@, [fn |-> "close", conn |-> c,
                                                             reasonCode |-> 1000])]
                         ELSE w,
                         c + 1, open)

\* shutdownServer: close every connection of the set, stop the listener; the
\* callback of httpServer.close runs in a later turn
ShutdownServer(w, name, open) ==
  [CloseConnections(w, 1, open) EXCEPT !.listeners = @ \ {name}]

\* handleShutdown on SIGINT or SIGTERM.  Before startWebServers AppHttp is
\* undefined and `AppHttp.shutdown()` throws a TypeError that nothing catches:
\* the process ends with code 1.  Afterwards both servers are shut down, the
\* second finding no connection still connected, and process.exit(0) follows
\* in the same turn.
Shutdown ==
  /\ LET open == {c \in wsConnections : connected[c]}
     IN /\ IF proc.state = "starting"
           THEN /\ Commit([World EXCEPT !.proc = [state |-> "exited", code |-> 1],
                                        !.rejections = Append(@, [fn |-> "handleShutdown",
                                                                  error |-> "TypeError"])])
                /\ connected' = connected
           ELSE /\ Commit([ShutdownServer(ShutdownServer(World, "AppHttp", open), "msHttp", {})
                             EXCEPT !.proc = [state |-> "exited", code |-> 0]])
                /\ connected' = [c \in Conns |-> connected[c] /\ c \notin wsConnections]
        /\ last' = [op |-> "shutdown", at |-> proc.state, open |-> open]
  /\ UNCHANGED <<cfgVars, setupPc, setupIdx, wsConnections>>

\* addWebSocketConnection(connection), whether or not the connection is in the
\* set; a connection handed over for the first time is a connected one
Register(c) ==
  /\ registrations[c] < MaxRegister
  /\ wsConnections' = AddWebSocketConnection(wsConnections, c)
  /\ connected' = [connected EXCEPT ![c] = IF registrations[c] = 0 THEN TRUE ELSE @]
  /\ Commit([World EXCEPT !.registrations[c] = @ + 1])
  /\ last' = [op |-> "register", conn |-> c]
  /\ UNCHANGED <<cfgVars, setupPc, setupIdx>>

\* removeWebSocketConnection(connection), whether or not the connection is in the set
Unregister(c) ==
  /\ wsConnections' = RemoveWebSocketConnection(wsConnections, c)
  /\ Commit(World)
  /\ last' = [op |-> "unregister", conn |-> c]
  /\ UNCHANGED <<cfgVars, setupPc, setupIdx, connected>>

----------------------------------------------------------------------------
(* Initial states *)

BackendNames == {"BackendBeolink", "BackendSonos", "BackendExample", "BackendFoo", Unset}
IpValues == {"10.0.0.7", Unset}
UnsetEnv == [backend |-> Unset, ip |-> Unset]
EnvChoices ==
  {[backend |-> "BackendBeolink", ip |-> "10.0.0.7"],
   [backend |-> "BackendSonos", ip |-> "10.0.0.7"],
   [backend |-> "BackendExample", ip |-> "10.0.0.7"],
   [backend |-> "BackendFoo", ip |-> "10.0.0.7"],
   [backend |-> "BackendBeolink", ip |-> Unset],
   UnsetEnv}

\* the player lists: no id twice
PlayerLists ==
  UNION {{s \in [1..n -> PlayerIds] : \A i, j \in 1..n : i # j => s[i] # s[j]} : n \in 0..MaxZones}

InitWith(lists, choices) ==
  /\ players \in lists
  /\ env \in {e \in [PlayerIds -> choices \cup {UnsetEnv}] :
                \A id \in PlayerIds : id \notin SeqToSet(players) => e[id] = UnsetEnv}
  /\ zone = <<>>
  /\ setupPc = "idle"
  /\ setupIdx = 0
  /\ musicCFG = players
  /\ pendingCfg = <<>>
  /\ constructed = <<>>
  /\ setups = {}
  /\ notifyStream = [a \in Instances |-> "null"]
  /\ streams = [a \in Instances |-> 0]
  /\ timers = [a \in Instances |-> 0]
  /\ pendingGet = {}
  /\ renewGet = [a \in Instances |-> 0]
  /\ wsConnections = {}
  /\ registrations = [c \in Conns |-> 0]
  /\ proc = [state |-> "starting", code |-> 0]
  /\ listeners = {}
  /\ connected = [c \in Conns |-> FALSE]
  /\ inflight = <<>>
  /\ bcast = <<>>
  /\ delivered = [c \in Conns |-> <<>>]
  /\ calls = <<>>
  /\ rejections = <<>>
  /\ last = [op |-> "none"]

----------------------------------------------------------------------------
(* Startup: setup of the registry over every configuration *)

Init == InitWith(PlayerLists, EnvChoices)

Next ==
  \/ SetupStart
  \/ \E ok \in BOOLEAN : ListenerSettled(ok)

Spec == Init /\ [][Next]_vars

\* C1: after setup, every configured zone id is in the registry and has a non-null
\* adapter, also when initialize() of some adapters fails.
C1_EveryZoneHasAdapter ==
  setupPc = "done" =>
    \A id \in SeqToSet(players) :
      id \in DOMAIN zone /\ zone[id].backendInstance # "null"

----------------------------------------------------------------------------
(* The registry and the broadcast hub: updateZoneTrack called with any id and *)
(* any partial track, connections coming and going                           *)

\* partial tracks: ones the adapters send (a volume notification with and without a
\* level, a progress notification, the dummy track) and the empty update
Partials(id) ==
  {[volume |-> Num(20)],
   [volume |-> Undefined],
   [mode |-> Str("play"), time |-> Num(5)],
   <<>>,
   ExampleDummyTrack(id)}

\* updateZoneTrack(playerId, newTrackInfo), as an adapter or any other caller calls it
UpdateTrackCall(id, newTrackInfo) ==
  LET w == UpdateZoneTrack(World, id, newTrackInfo)
  IN /\ Commit(w)
     /\ last' = [op |-> "updateTrack", id |-> id, partial |-> newTrackInfo, ret |-> w.ret]
     /\ UNCHANGED <<cfgVars, connVars, setupPc, setupIdx>>

InitRegistry == InitWith({<<"14", "15">>}, {UnsetEnv})

NextRegistry ==
  \/ SetupStart
  \/ \E id \in PlayerIds \cup {UnknownId} : \E p \in Partials(id) : UpdateTrackCall(id, p)
  \/ \E c \in Conns : WsConnect(c)
  \/ \E c \in Conns : WsDrop(c)
  \/ \E c \in Conns : WsClose(c)

SpecRegistry == InitRegistry /\ [][NextRegistry]_vars

\* C2: updateZoneTrack on an id that is not in the registry returns false, broadcasts
\* nothing to any connection and leaves every zone's track as it was.
C2_UnknownZoneNoEffect ==
  [][(last'.op = "updateTrack" /\ last'.id \notin DOMAIN zone) =>
       /\ last'.ret = FALSE
       /\ bcast' = <<>>
       /\ \A c \in Conns : delivered'[c] = <<>>
       /\ zone' = zone]_vars

C2_Witness ==
  /\ last.op = "updateTrack"
  /\ last.id = UnknownId
  /\ DOMAIN zone = {"14", "15"}
  /\ \E c \in wsConnections : connected[c]
  /\ last.ret = FALSE

\* C3: updateZoneTrack on an existing zone is a field-level merge: a supplied field
\* holds the supplied value, every other field holds the value it had, and the
\* tracks of the other zones are unchanged.
C3_FieldLevelMerge ==
  [][(last'.op = "updateTrack" /\ last'.id \in DOMAIN zone) =>
       LET id == last'.id
           p == last'.partial
           old == zone[id].track
           new == zone'[id].track
       IN /\ last'.ret = TRUE
          /\ DOMAIN zone' = DOMAIN zone
          /\ DOMAIN new = DOMAIN old \cup DOMAIN p
          /\ \A f \in DOMAIN p : new[f] = p[f]
          /\ \A f \in DOMAIN old \ DOMAIN p : new[f] = old[f]
          /\ \A o \in DOMAIN zone \ {id} : zone'[o] = zone[o]]_vars

C3_Witness ==
  /\ last.op = "updateTrack"
  /\ last.id \in DOMAIN zone
  /\ last.partial = [volume |-> Num(20)]
  /\ zone[last.id].track.volume = Num(20)
  /\ zone[last.id].track.mode = Str("pause")
  /\ \E o \in DOMAIN zone : o # last.id /\ zone[o].track.volume = Num(10)

\* C4: a successful updateZoneTrack hands exactly one message to broadcastEvent, in the
\* same turn: the audio_event message of the zone's track as it is after the merge.
C4_OneBroadcastOfMergedTrack ==
  (last.op = "updateTrack" /\ last.ret = TRUE) =>
    /\ Len(bcast) = 1
    /\ bcast[1].event = "audio_event"
    /\ bcast[1].body = <<JsonStringify(zone[last.id].track)>>

C4_Witness ==
  /\ last.op = "updateTrack"
  /\ last.ret = TRUE
  /\ last.partial = [volume |-> Num(20)]
  /\ Len(bcast) = 1
  /\ bcast[1].body[1].volume = Num(20)
  /\ bcast[1].body[1].mode = Str("pause")
  /\ bcast[1].body[1] # JsonStringify(last.partial)

\* C5: broadcastEvent sends each message, unmodified and once, to every registered
\* connection that is connected and to no other; a registered connection that is
\* no longer connected is skipped.
C5_BroadcastToOpenOnly ==
  \A c \in Conns :
    delivered[c] = IF c \in wsConnections /\ connected[c] THEN bcast ELSE <<>>

C5_Witness ==
  /\ bcast # <<>>
  /\ \E c \in wsConnections : connected[c] /\ delivered[c] = bcast
  /\ \E c \in wsConnections : ~connected[c] /\ delivered[c] = <<>>

----------------------------------------------------------------------------
(* Strings the dispatcher takes apart.  A request is a sequence of tokens; *)
(* a token stands for a run of characters holding neither "/" nor ",", and *)
(* the tokens of the alphabet are chosen so that no two different token    *)
(* sequences spell the same text and no token spells the beginning of      *)
(* another one.                                                            *)

Digits == {"0", "3", "5", "7", "14", "15", "99"}
NumeralValue ==
  ("0" :> 0) @@ ("3" :> 3) @@ ("5" :> 5) @@ ("7" :> 7) @@ ("14" :> 14) @@ ("15" :> 15)
  @@ ("99" :> 99) @@ ("-3" :> -3)
\* tokens whose first character is not a lowercase letter
NonLower == Digits \cup {"-3", "LMS", ",", "/", "Zm9v", "{trimmedUrl}",
                         "W3siMTQifV0", "W3siMTQiLCIxNSJ9XQ"}

\* String.prototype.split(sep): the segments between the separators
RECURSIVE Split(_, _)
Split(s, sep) ==
  IF s = <<>> THEN << <<>> >>
  ELSE LET rest == Split(Tail(s), sep)
       IN IF Head(s) = sep THEN << <<>> >> \o rest
          ELSE << <<Head(s)>> \o Head(rest) >> \o Tail(rest)

\* parts[i] of a JavaScript array (indices from 0): undefined past the end
At(parts, i) == IF i < Len(parts) THEN Str(parts[i + 1]) ELSE Undefined

\* String.prototype.startsWith
StartsWith(s, prefix) == Len(s) >= Len(prefix) /\ SubSeq(s, 1, Len(prefix)) = prefix

\* /^\d+$/ on a segment
IsDigits(seg) == seg # <<>> /\ \A i \in 1..Len(seg) : seg[i] \in Digits

\* /^[a-z]/.test(segment)
LowerStart(seg) == seg # <<>> /\ seg[1] \notin NonLower

\* the property key a value is turned into when it indexes `zone`
Key(v) ==
  IF v = Undefined THEN "undefined"
  ELSE IF Len(v.s) = 1 THEN v.s[1]
  ELSE IF v.s = <<>> THEN ""
  ELSE "(other)"

\* Number(v) and unary plus
ToNumber(v) ==
  CASE v.t = "number" -> v
    [] v.t = "null" -> Num(0)
    [] v.t = "string" ->
         IF v.s = <<>> THEN Num(0)
         ELSE IF Len(v.s) = 1 /\ v.s[1] \in DOMAIN NumeralValue THEN Num(NumeralValue[v.s[1]])
         ELSE NaN
    [] OTHER -> NaN

\* parseInt(v): the leading numeral of the text, NaN when there is none
ParseInt(v) ==
  IF v.t = "string" /\ v.s # <<>> /\ v.s[1] \in DOMAIN NumeralValue
  THEN Num(NumeralValue[v.s[1]])
  ELSE NaN

\* a + b on numbers
JsAdd(a, b) == IF a.t = "number" /\ b.t = "number" THEN Num(a.n + b.n) ELSE NaN

\* `${v}` in a template literal
Interpolate(v) == IF v = Undefined THEN <<"undefined">> ELSE v.s

----------------------------------------------------------------------------
(* requesthandler.ts: the routes *)

COMMAND_SECURE_INFO_PAIRING == <<"secure", "/", "info", "/", "pairing">>
COMMAND_SECURE_HELLO == <<"secure", "/", "hello">>
COMMAND_SECURE_AUTHENTICATE == <<"secure", "/", "authenticate">>
COMMAND_SECURE_INIT == <<"secure", "/", "init">>
COMMAND_MINISERVER_TIME == <<"audio", "/", "cfg", "/", "miniservertime">>
COMMAND_AUDIO_CFG_READY == <<"audio", "/", "cfg", "/", "ready">>
COMMAND_AUDIO_CFG_GETCONFIG == <<"audio", "/", "cfg", "/", "getconfig">>
COMMAND_AUDIO_CFG_SETCONFIG == <<"audio", "/", "cfg", "/", "setconfig">>
COMMAND_AUDIO_CFG_GET_KEY == <<"audio", "/", "cfg", "/", "getkey">>
COMMAND_AUDIO_CFG_GET_MEDIA_FOLDER == <<"audio", "/", "cfg", "/", "getmediafolder">>
COMMAND_AUDIO_CFG_GET_PLAYLISTS == <<"audio", "/", "cfg", "/", "getplaylists2", "/", "lms">>
COMMAND_AUDIO_CFG_GET_RADIOS == <<"audio", "/", "cfg", "/", "getradios">>
COMMAND_AUDIO_CFG_GET_ROOM_FAVS == <<"audio", "/", "cfg", "/", "getroomfavs">>
COMMAND_AUDIO_CFG_GET_SYNCED_PLAYERS == <<"audio", "/", "cfg", "/", "getsyncedplayers">>
COMMAND_AUDIO_CFG_GET_QUEUE == <<"audio", "/", "\\d+", "/", "getqueue">>
COMMAND_AUDIO_PLAYER_STATUS == <<"audio", "/", "\\d+", "/", "status">>
AUDIO_GROUP == <<"audio", "/", "cfg", "/", "dgroup">>
AUDIO_COMMANDS_PATTERN == <<"audio", "/", "\\d+", "/", "(on|off|...|test)">>
\* the alternatives of AUDIO_COMMANDS_PATTERN
AudioCommands ==
  {"on", "off", "play", "resume", "pause", "queueminus", "queueplus", "volume", "repeat",
   "shuffle", "test"}

\* one "/"-free piece of a pattern against one segment of the request
SegTest(piece, seg) ==
  CASE piece = <<"\\d+">> -> IsDigits(seg)
    [] piece = <<"(on|off|...|test)">> -> Len(seg) = 1 /\ seg[1] \in AudioCommands
    [] OTHER -> seg = piece

\* new RegExp(`(?:^|/)${pattern}(?:/|$)`).test(s), and with slashAfter the
\* form `(?:^|/)${pattern}/`.  The pattern is delimited by "/" or an end of
\* the text on both sides and its pieces hold no "/", so it matches exactly
\* when consecutive segments of s match its pieces.
RegExpTest(pattern, slashAfter, s) ==
  LET parts == Split(s, "/")
      pieces == Split(pattern, "/")
      n == Len(pieces)
  IN \E k \in 1..Len(parts) :
       /\ k + n - 1 <= Len(parts)
       /\ \A j \in 1..n : SegTest(pieces[j], parts[k + j - 1])
       /\ slashAfter => k + n - 1 < Len(parts)

\* the case of the switch in handleLoxoneCommand that takes the request
Route(trimmedUrl) ==
  IF trimmedUrl = <<>> THEN "empty"
  ELSE IF trimmedUrl = COMMAND_MINISERVER_TIME THEN "miniservertime"
  ELSE IF trimmedUrl = COMMAND_SECURE_INFO_PAIRING THEN "pairing"
  ELSE IF StartsWith(trimmedUrl, COMMAND_SECURE_HELLO) THEN "hello"
  ELSE IF StartsWith(trimmedUrl, COMMAND_SECURE_AUTHENTICATE) THEN "authenticate"
  ELSE IF StartsWith(trimmedUrl, COMMAND_SECURE_INIT) THEN "init"
  ELSE IF StartsWith(trimmedUrl, COMMAND_AUDIO_CFG_READY) THEN "ready"
  ELSE IF StartsWith(trimmedUrl, COMMAND_AUDIO_CFG_GETCONFIG) THEN "getconfig"
  ELSE IF StartsWith(trimmedUrl, COMMAND_AUDIO_CFG_SETCONFIG) THEN "setconfig"
  ELSE IF StartsWith(trimmedUrl, AUDIO_GROUP) THEN "dgroup"
  ELSE IF RegExpTest(AUDIO_COMMANDS_PATTERN, FALSE, trimmedUrl) THEN "command"
  ELSE IF RegExpTest(COMMAND_AUDIO_CFG_GET_KEY, FALSE, trimmedUrl) THEN "getkey"
  ELSE IF RegExpTest(COMMAND_AUDIO_CFG_GET_MEDIA_FOLDER, FALSE, trimmedUrl)
       THEN "getmediafolder"
  ELSE IF RegExpTest(COMMAND_AUDIO_CFG_GET_PLAYLISTS, FALSE, trimmedUrl)
       THEN "getplaylists2"
  ELSE IF RegExpTest(COMMAND_AUDIO_CFG_GET_RADIOS, FALSE, trimmedUrl) THEN "getradios"
  ELSE IF RegExpTest(COMMAND_AUDIO_CFG_GET_ROOM_FAVS, TRUE, trimmedUrl)
       THEN "getroomfavs"
  ELSE IF RegExpTest(COMMAND_AUDIO_CFG_GET_SYNCED_PLAYERS, FALSE, trimmedUrl)
       THEN "getsyncedplayers"
  ELSE IF RegExpTest(COMMAND_AUDIO_PLAYER_STATUS, FALSE, trimmedUrl) THEN "status"
  ELSE IF RegExpTest(COMMAND_AUDIO_CFG_GET_QUEUE, FALSE, trimmedUrl) THEN "getqueue"
  ELSE "unknown"

\* response(url, name, result): the JSON text, as the object it spells
Response(url, name, result) ==
  [t |-> "envelope", key |-> name \o <<"_result">>, result |-> result, command |-> url]

\* the mutant names the response after the first lowercase-starting segment
EmptyCommandFirst(url, rsp) ==
  LET parts == Split(url, "/")
      hits == {i \in 1..Len(parts) : LowerStart(parts[i])}
  IN IF hits = {} THEN Undefined
     ELSE Response(url, parts[CHOOSE i \in hits : \A j \in hits : i <= j], rsp)

\* the mutant names the response after the last segment, whatever it starts with
EmptyCommandLastSegment(url, rsp) ==
  LET parts == Split(url, "/")
      hits == {i \in 1..Len(parts) : LowerStart(parts[i])}
  IN IF hits = {} THEN Undefined
     ELSE Response(url, parts[Len(parts)], rsp)

\* emptyCommand(url, rsp): named after the last segment that starts with a
\* lowercase letter; nothing is returned when there is no such segment
EmptyCommand(url, rsp) ==
  LET parts == Split(url, "/")
      hits == {i \in 1..Len(parts) : LowerStart(parts[i])}
  IN IF hits = {} THEN Undefined
     ELSE Response(url, parts[CHOOSE i \in hits : \A j \in hits : i >= j], rsp)

UnknownCommand(url) == EmptyCommand(url, Null)

----------------------------------------------------------------------------
(* Commands to the adapters.  An async function runs, in the turn of its   *)
(* caller, up to its first await on I/O; a TypeError thrown inside it      *)
(* rejects its promise, which no caller here handles.                      *)

Log(w, entry) == [w EXCEPT !.calls = Append(@, entry)]
Reject(w, fn) == [w EXCEPT !.rejections = Append(@, [fn |-> fn, error |-> "TypeError"])]

\* BackendBeolink.doAction: the POST is issued and awaited
DoAction(w, playerId, action) ==
  [w EXCEPT !.inflight = Append(@, [method |-> "POST", id |-> playerId, path |-> action])]

\* an adjustVolume that starts from the volume an earlier call still in flight
\* had read
AdjustVolumeStale(w, playerId, change) ==
  LET earlier == {i \in 1..Len(w.inflight) :
                    w.inflight[i].method = "PUT" /\ w.inflight[i].id = playerId}
      currentVolume == IF earlier = {} THEN ToNumber(w.zone[playerId].track.volume)
                       ELSE w.inflight[CHOOSE i \in earlier : \A k \in earlier : i <= k].currentVolume
      newVolume == JsAdd(currentVolume, ToNumber(change))
      updated == UpdateZoneTrack(w, playerId, [volume |-> newVolume])
  IN [updated EXCEPT !.inflight =
        Append(@, [method |-> "PUT", id |-> playerId,
                   path |-> "Sound/Volume/Speaker/Level", level |-> newVolume,
                   currentVolume |-> currentVolume])]

\* BackendBeolink.adjustVolume: the track is updated, then the PUT is awaited
AdjustVolume(w, playerId, change) ==
  LET currentVolume == ToNumber(w.zone[playerId].track.volume)
      volumeChange == ToNumber(change)
      newVolume == JsAdd(currentVolume, volumeChange)
      updated == UpdateZoneTrack(w, playerId, [volume |-> newVolume])
  IN [updated EXCEPT !.inflight =
        Append(@, [method |-> "PUT", id |-> playerId,
                   path |-> "Sound/Volume/Speaker/Level", level |-> newVolume,
                   currentVolume |-> currentVolume])]

actionMap ==
  ("resume" :> "Stream/Play") @@ ("play" :> "Stream/Play") @@ ("pause" :> "Stream/Pause")
  @@ ("queueminus" :> "Stream/Backward") @@ ("queueplus" :> "Stream/Forward")
  @@ ("volume" :> "adjustVolume") @@ ("groupJoin" :> "Device/OneWayJoin")
  @@ ("groupLeave" :> "Device/OneWayJoin") @@ ("repeat" :> "List/Repeat")
  @@ ("shuffle" :> "List/Shuffle")

\* names that every object literal inherits from Object.prototype
ObjectPrototypeNames == {"constructor", "toString", "valueOf", "hasOwnProperty"}

\* actionMap[command]: the own property, else the inherited one (a function,
\* which is truthy and is not 'adjustVolume'), else undefined, here ""
ActionOf(command) ==
  IF command.t = "string" /\ Len(command.s) = 1
  THEN IF command.s[1] \in DOMAIN actionMap THEN actionMap[command.s[1]]
       ELSE IF command.s[1] \in ObjectPrototypeNames THEN "function () { [native code] }"
       ELSE ""
  ELSE ""

\* BackendBeolink.sendCommand
BeolinkSendCommand(w, playerId, command, param) ==
  LET action == ActionOf(command)
  IN IF action # ""
     THEN IF action = "adjustVolume"
          THEN AdjustVolume(w, playerId, param)
          ELSE DoAction(w, playerId, action)
     ELSE w

\* backendInstance.sendCommand(command, param) of the adapter of a zone
SendCommand(w, playerId, command, param) ==
  LET called == Log(w, [fn |-> "sendCommand", id |-> playerId,
                        command |-> command, param |-> param])
  IN IF w.zone[playerId].backendInstance = "BackendBeolink"
     THEN BeolinkSendCommand(called, playerId, command, param)
     ELSE called

\* sendCommandToZone
SendCommandToZone(w, playerId, command, param) ==
  LET called == Log(w, [fn |-> "sendCommandToZone", id |-> playerId,
                        command |-> command, param |-> param])
  IN IF Key(playerId) \notin DOMAIN w.zone THEN Reject(called, "sendCommandToZone")
     ELSE IF w.zone[Key(playerId)].backendInstance = "null" THEN called
     ELSE SendCommand(called, Key(playerId), command, param)

\* updateZoneGroup: reads zone[15] and zone[14]; throws when one is missing
UpdateZoneGroup(w) ==
  IF {"14", "15"} \subseteq DOMAIN w.zone
  THEN BroadcastEvent(w, [event |-> "audio_sync_event",
                          body |-> <<[type |-> "dynamic", players |-> <<"15", "14">>]>>])
  ELSE w

RECURSIVE JoinMembers(_, _, _)
\* the forEach of BackendBeolink.sendGroupCommand
JoinMembers(w, self, ids) ==
  IF ids = <<>> THEN w
  ELSE IF Head(ids) # <<self>>
       THEN JoinMembers(SendCommandToZone(w, Str(Head(ids)), Str(<<"groupJoin">>),
                                          Str(<<self>>)),
                        self, Tail(ids))
       ELSE JoinMembers(w, self, Tail(ids))

\* the mutant sends the join to every id of the list, the master included
BeolinkSendGroupCommandAll(w, self, additionalIDs) ==
  LET joined[i \in 0..Len(additionalIDs)] ==
        IF i = 0 THEN w
        ELSE SendCommandToZone(joined[i - 1], Str(additionalIDs[i]), Str(<<"groupJoin">>),
                               Str(<<self>>))
  IN UpdateZoneGroup(joined[Len(additionalIDs)])

\* BackendBeolink.sendGroupCommand
BeolinkSendGroupCommand(w, self, additionalIDs) ==
  UpdateZoneGroup(JoinMembers(w, self, additionalIDs))

\* the mutant announces a group as the Beolink adapter does
BackendSendGroupCommandSync(w, self, additionalIDs) == UpdateZoneGroup(w)

\* Backend.sendGroupCommand, kept by the adapters that do not override it:
\* "Not Implemented" is logged
BackendSendGroupCommand(w, self, additionalIDs) == w

\* sendGroupCommandToZone
SendGroupCommandToZone(w, command, type, Group) ==
  LET called == Log(w, [fn |-> "sendGroupCommandToZone", command |-> command,
                        type |-> type, group |-> Group])
  IN IF Group = Undefined THEN Reject(called, "sendGroupCommandToZone")
     ELSE LET idArray == Split(Group.s, ",")
              masterID == Head(idArray)
              additionalIDs == Tail(idArray)
              key == Key(Str(masterID))
          IN IF key \notin DOMAIN w.zone THEN Reject(called, "sendGroupCommandToZone")
             ELSE IF w.zone[key].backendInstance = "null" THEN called
             ELSE LET invoked == Log(called, [fn |-> "sendGroupCommand", id |-> key,
                                              command |-> command, type |-> type,
                                              master |-> masterID,
                                              members |-> additionalIDs])
                  IN IF w.zone[key].backendInstance = "BackendBeolink"
                     THEN BeolinkSendGroupCommand(invoked, key, additionalIDs)
                     ELSE BackendSendGroupCommand(invoked, key, additionalIDs)

----------------------------------------------------------------------------
(* requesthandler.ts: the handlers and the dispatcher *)

\* audioGetStatus: the track of the zone, undefined (null in JSON) without zone
AudioGetStatus(w, url) ==
  LET zoneId == Key(At(Split(url, "/"), 1))
  IN Response(url, <<"status">>,
              <<IF zoneId \in DOMAIN w.zone THEN JsonStringify(w.zone[zoneId].track)
                ELSE Null>>)

AudioGetQueue(url) == Response(url, <<"getqueue">>, <<[id |-> Num(1), totalitems |-> Num(1)]>>)

AudioCfgGetRoomFavs(url) ==
  Response(url, <<"getroomfavs">>,
           <<JsonStringify([id |-> ParseInt(At(Split(url, "/"), 3)), totalitems |-> Num(3),
                            start |-> Num(0)])>>)

AudioCfgGetRadios(url) == Response(url, <<"getradios">>, <<"presets", "all">>)

AudioCfgGetMediaFolder(url) ==
  Response(url, <<"getmediafolder">>,
           <<JsonStringify([id |-> At(Split(url, "/"), 3), totalitems |-> Num(0),
                            start |-> ToNumber(At(Split(url, "/"), 4)), items |-> Arr(<<>>)])>>)

AudioCfgGetPlaylists(url) ==
  Response(url, <<"getplaylists2">>,
           <<JsonStringify([id |-> At(Split(url, "/"), 5), totalitems |-> Num(0),
                            start |-> ToNumber(At(Split(url, "/"), 6)), items |-> Arr(<<>>)])>>)

AudioCfgGetSyncedPlayers(url) == EmptyCommand(url, <<>>)
AudioCfgReady(url) == EmptyCommand(url, [session |-> "547541322864"])
AudioCfgGetKey(url) == EmptyCommand(url, <<[pubkey |-> "n", exp |-> "e"]>>)

\* crc32 of JSON.stringify(data): the checksum stands for the text it was taken of
Crc32(data) == [t |-> "crc32", of |-> data]

AudioCfgGetConfig(w, url) ==
  EmptyCommand(url, [crc32 |-> Crc32(w.musicCFG), extensions |-> <<>>])

\* the payloads that are the base64 text of a configuration, and its players
Payloads == ("W3siMTQifV0" :> <<"14">>) @@ ("W3siMTQiLCIxNSJ9XQ" :> <<"14", "15">>)

\* JSON.parse(Buffer.from(encoded_data, 'base64').toString('utf-8')): the
\* configuration, or Undefined when Buffer.from or JSON.parse throws
DecodeConfig(encoded_data) ==
  IF encoded_data = Undefined THEN Undefined
  ELSE IF Len(encoded_data.s) = 1 /\ encoded_data.s[1] \in DOMAIN Payloads
       THEN Arr(Payloads[encoded_data.s[1]])
       ELSE Undefined

\* the setconfig case: the same response, computed before the configuration is
\* processed, whether or not the payload could be decoded and parsed; a payload
\* that parses is handed to processAudioServerConfig, which first awaits its checksum
AudioCfgSetConfig(w, url) ==
  LET updatedConfigData == DecodeConfig(At(Split(url, "/"), 3))
  IN [w EXCEPT !.pendingCfg = IF updatedConfigData = Undefined THEN @
                              ELSE Append(@, updatedConfigData.a),
               !.ret = EmptyCommand(url, [crc32 |-> Crc32(w.musicCFG), extensions |-> <<>>])]
HandleSecureAuthenticate(url) == EmptyCommand(url, "authentication successful")

HandleSecureHello(trimmedUrl) ==
  [t |-> "object", command |-> COMMAND_SECURE_HELLO, error |-> 0,
   public_key |-> Interpolate(At(Split(trimmedUrl, "/"), 3))]

HandleSecureInit == [t |-> "object", command |-> COMMAND_SECURE_INIT, error |-> 0, jwt |-> "jwt"]

SecureInfoPairing ==
  [t |-> "object", command |-> COMMAND_SECURE_INFO_PAIRING, error |-> -84, peers |-> <<>>]

MiniserverTime(trimmedUrl) == [t |-> "text", text |-> <<"Handled Miniserver time request">>,
                               url |-> trimmedUrl]

\* the literal returned for a zone command: "{trimmedUrl}" stands in it as
\* written, it is not a template placeholder
CommandAck ==
  [t |-> "envelope", key |-> <<"dgroup_update", "_result">>,
   result |-> [id |-> "cc131c8a-a368-f320-da6d-2568b7314e8c"], command |-> <<"{trimmedUrl}">>]

\* a dispatcher whose status route writes the track it reads back
HandleLoxoneCommandTouching(w, trimmedUrl) ==
  IF Route(trimmedUrl) = "status"
  THEN [UpdateZoneTrack(w, Key(At(Split(trimmedUrl, "/"), 1)), <<>>)
          EXCEPT !.ret = AudioGetStatus(w, trimmedUrl)]
  ELSE [w EXCEPT !.ret = UnknownCommand(trimmedUrl)]

\* handleLoxoneCommand: the world after the call, the response in ret
HandleLoxoneCommand(w, trimmedUrl) ==
  LET route == Route(trimmedUrl)
      parts == Split(trimmedUrl, "/")
      Return(v) == [w EXCEPT !.ret = v]
  IN CASE route = "empty" -> Return(UnknownCommand(<<>>))
       [] route = "miniservertime" -> Return(MiniserverTime(trimmedUrl))
       [] route = "pairing" -> Return(SecureInfoPairing)
       [] route = "hello" -> Return(HandleSecureHello(trimmedUrl))
       [] route = "authenticate" -> Return(HandleSecureAuthenticate(trimmedUrl))
       [] route = "init" -> Return(HandleSecureInit)
       [] route = "ready" -> Return(AudioCfgReady(trimmedUrl))
       [] route = "getconfig" -> Return(AudioCfgGetConfig(w, trimmedUrl))
       [] route = "setconfig" -> AudioCfgSetConfig(w, trimmedUrl)
       [] route = "dgroup" ->
            [SendGroupCommandToZone(w, At(parts, 3), At(parts, 4), At(parts, 5))
               EXCEPT !.ret = EmptyCommand(trimmedUrl, <<>>)]
       [] route = "command" ->
            [SendCommandToZone(w, At(parts, 1), At(parts, 2), At(parts, 3))
               EXCEPT !.ret = CommandAck]
       [] route = "getkey" -> Return(AudioCfgGetKey(trimmedUrl))
       [] route = "getmediafolder" -> Return(AudioCfgGetMediaFolder(trimmedUrl))
       [] route = "getplaylists2" -> Return(AudioCfgGetPlaylists(trimmedUrl))
       [] route = "getradios" -> Return(AudioCfgGetRadios(trimmedUrl))
       [] route = "getroomfavs" -> Return(AudioCfgGetRoomFavs(trimmedUrl))
       [] route = "getsyncedplayers" -> Return(AudioCfgGetSyncedPlayers(trimmedUrl))
       [] route = "status" -> Return(AudioGetStatus(w, trimmedUrl))
       [] route = "getqueue" -> Return(AudioGetQueue(trimmedUrl))
       [] OTHER -> Return(UnknownCommand(trimmedUrl))

\* the volume an adapter has computed stays within the bound of the model
VolumeInRange(w) ==
  \A id \in DOMAIN w.zone :
    (w.zone[id].backendInstance = "BackendBeolink" /\ w.zone[id].track.volume.t = "number")
      => /\ w.zone[id].track.volume.n <= MaxVolume
         /\ w.zone[id].track.volume.n >= 0 - MaxVolume

\* handleRequest: one request, from the HTTP server or from a WebSocket
\* message, handed to handleLoxoneCommand
HandleRequestWithin(url, cap) ==
  /\ setupPc # "idle"
  /\ LET w == HandleLoxoneCommand(World, url)
     IN /\ Len(w.inflight) <= cap
        /\ Len(w.pendingCfg) <= MaxInflight
        /\ VolumeInRange(w)
        /\ Commit(w)
        /\ last' = [op |-> "handleRequest", url |-> url, route |-> Route(url),
                    response |-> w.ret]
  /\ UNCHANGED <<cfgVars, connVars, setupPc, setupIdx>>

HandleRequest(url) == HandleRequestWithin(url, MaxInflight)

\* processAudioServerConfig after `await asyncCrc32`: a configuration whose
\* checksum is the stored one changes nothing; any other is stored with its
\* checksum and setupZones is called, which runs to its first wait
ProcessAudioServerConfig(w, data, fails) ==
  IF Crc32(data) = Crc32(w.musicCFG) THEN w
  ELSE Awaiting(SetupLoopOver([w EXCEPT !.musicCFG = data], data, 1, fails), data, FALSE)

\* the checksum of the oldest configuration waiting is there
ConfigProcessed ==
  /\ pendingCfg # <<>>
  /\ \E fails \in SUBSET SeqToSet(Head(pendingCfg)) :
       LET w == ProcessAudioServerConfig([World EXCEPT !.pendingCfg = Tail(@)],
                                         Head(pendingCfg), fails)
       IN /\ InstancesInRange(w)
          /\ Commit(w)
          /\ last' = [op |-> "configProcessed", data |-> Head(pendingCfg), fails |-> fails]
  /\ UNCHANGED <<cfgVars, connVars, setupPc, setupIdx>>

\* the axios.get of the adapter a later call of setupZones waits for is answered,
\* and that call goes on with its next player
ResetupSettled(ok) ==
  \E s \in setups :
    /\ ~s.startup
    /\ s.inst \in pendingGet
    /\ \E fails \in SUBSET SeqToSet(s.list) :
         LET opened == ListenerOpened([World EXCEPT !.setups = @ \ {s}], s.inst, ok)
             w == Awaiting(SetupLoopOver(opened, s.list, s.idx + 1, fails), s.list, FALSE)
         IN /\ InstancesInRange(w)
            /\ Commit(w)
            /\ last' = [op |-> "resetupSettled", id |-> s.list[s.idx], ok |-> ok]
    /\ UNCHANGED <<cfgVars, connVars, setupPc, setupIdx>>

\* the device answers (or fails) one of the calls in flight; the adapter
\* only logs the outcome
DeviceReply(i) ==
  /\ i \in 1..Len(inflight)
  /\ \E ok \in BOOLEAN :
       /\ Commit([World EXCEPT !.inflight = SubSeq(@, 1, i - 1) \o SubSeq(@, i + 1, Len(@))])
       /\ last' = [op |-> "deviceReply", call |-> inflight[i], ok |-> ok]
  /\ UNCHANGED <<cfgVars, connVars, setupPc, setupIdx>>

----------------------------------------------------------------------------
(* Adapter events: timers, notification streams *)

MaxRenew == 2

\* a property of the notification data, undefined when it is missing
Get(data, f) == IF f \in DOMAIN data THEN data[f] ELSE Undefined

\* a table in which the end of a track also resets the mode and the volume
CreateTrackInfoResetAll(type, data) ==
  CASE type = "VOLUME" ->
         [volume |-> IF "speaker" \in DOMAIN data THEN Get(data.speaker, "level") ELSE Undefined]
    [] type = "PROGRESS_INFORMATION" ->
         [mode |-> Get(data, "state"), time |-> Get(data, "position")]
    [] type \in {"SHUTDOWN", "NOW_PLAYING_ENDED"} ->
         [audiotype |-> Num(0), artist |-> Str(""), album |-> Str(""), title |-> Str(""),
          duration |-> Num(0), coverurl |-> Str(""), mode |-> Str("stop"), volume |-> Num(0)]
    [] OTHER -> <<>>

\* BackendBeolink.createTrackInfo
CreateTrackInfo(type, data) ==
  CASE type = "SOURCE" ->
         [power |-> Str("on"),
          title |-> IF Get(data, "friendlyName") \in {Undefined, Str("")}
                    THEN Str("Unknown Source") ELSE data.friendlyName]
    [] type = "VOLUME" ->
         [volume |-> IF "speaker" \in DOMAIN data THEN Get(data.speaker, "level") ELSE Undefined]
    [] type = "NOW_PLAYING_STORED_MUSIC" ->
         [audiotype |-> Num(2), artist |-> Get(data, "artist"), album |-> Get(data, "album"),
          title |-> Get(data, "name"), duration |-> Get(data, "duration"),
          coverurl |-> Str("http://ip:7091/cors-proxy?url=&id=")]
    [] type = "PROGRESS_INFORMATION" ->
         SpreadMerge([mode |-> Get(data, "state"), time |-> Get(data, "position")],
                     IF Get(data, "playQueueItemId") = Str("AUX")
                     THEN [audiotype |-> Num(1), duration |-> Num(0)] ELSE <<>>)
    [] type \in {"SHUTDOWN", "NOW_PLAYING_ENDED"} ->
         [audiotype |-> Num(0), artist |-> Str(""), album |-> Str(""), title |-> Str(""),
          duration |-> Num(0), coverurl |-> Str("")]
    [] OTHER -> <<>>

\* BackendBeolink.handleNotification, of the adapter object a
HandleNotification(w, a, msg) ==
  UpdateZoneTrack(w, w.constructed[a].playerid,
                  CreateTrackInfo(msg.notification.type, msg.notification.data))

\* BackendBeolink.closeNotificationListener
CloseNotificationListener(w, a) ==
  IF w.notifyStream[a] # "null"
  THEN [w EXCEPT !.notifyStream[a] = "null",
                 !.streams[a] = IF w.notifyStream[a] = "open" THEN @ - 1 ELSE @,
                 !.calls = Append(@, [fn |-> "destroy", inst |-> a])]
  ELSE w

\* BackendBeolink.createNotificationListener up to its await: axios.get is sent
CreateNotificationListener(w, a) ==
  [w EXCEPT !.renewGet[a] = @ + 1, !.calls = Append(@, [fn |-> "axios.get", inst |-> a])]

\* a renewal that closes the listener and opens none
RenewalTickCloseOnly(w, a) == CloseNotificationListener(w, a)

\* the callback of the renewal timer of BackendBeolink.initialize
RenewalTick(w, a) == CreateNotificationListener(CloseNotificationListener(w, a), a)

\* the callback of the timer of BackendExample.startUpdatingTrack
ExampleTick(w, a) ==
  UpdateZoneTrack(w, w.constructed[a].playerid, ExampleDummyTrack(w.constructed[a].playerid))

\* a timer of the adapter object a fires
TimerTick(a) ==
  /\ a \in 1..Len(constructed)
  /\ timers[a] > 0
  /\ LET w == IF constructed[a].kind = "BackendBeolink" THEN RenewalTick(World, a)
              ELSE ExampleTick(World, a)
     IN /\ w.renewGet[a] <= MaxRenew
        /\ Commit(w)
        /\ last' = [op |-> "timerTick", inst |-> a, handle |-> notifyStream[a]]
  /\ UNCHANGED <<cfgVars, connVars, setupPc, setupIdx>>

\* createNotificationListener after an axios.get sent by the renewal timer: the
\* stream is stored in the handle and listened to, or the error is caught and logged
RenewSettled(a, ok) ==
  /\ a \in 1..Len(constructed)
  /\ renewGet[a] > 0
  /\ ok => streams[a] < MaxRenew
  /\ Commit([World EXCEPT !.renewGet[a] = @ - 1,
                          !.notifyStream[a] = IF ok THEN "open" ELSE @,
                          !.streams[a] = IF ok THEN @ + 1 ELSE @])
  /\ last' = [op |-> "renewSettled", inst |-> a, ok |-> ok]
  /\ UNCHANGED <<cfgVars, connVars, setupPc, setupIdx>>

\* a live stream of the adapter object a emits 'error': the handler logs it.
\* The stream delivers nothing more; when it is the stream the handle holds,
\* the handle keeps referring to it.
StreamError(a, held) ==
  /\ a \in 1..Len(constructed)
  /\ IF held THEN notifyStream[a] = "open"
             ELSE streams[a] > (IF notifyStream[a] = "open" THEN 1 ELSE 0)
  /\ Commit([World EXCEPT !.streams[a] = @ - 1,
                          !.notifyStream[a] = IF held THEN "errored" ELSE @])
  /\ last' = [op |-> "streamError", inst |-> a, held |-> held]
  /\ UNCHANGED <<cfgVars, connVars, setupPc, setupIdx>>

\* a live stream of the adapter object a emits 'data'
Notification(a, msg) ==
  /\ a \in 1..Len(constructed)
  /\ streams[a] > 0
  /\ LET w == HandleNotification(World, a, msg)
     IN /\ VolumeInRange(w)
        /\ Commit(w)
        /\ last' = [op |-> "notification", inst |-> a, msg |-> msg]
  /\ UNCHANGED <<cfgVars, connVars, setupPc, setupIdx>>

----------------------------------------------------------------------------
(* The dispatcher over a registry of stub zones and every shape of request *)

RouteBases ==
  { <<>>, <<"foo">>, <<"LMS">>, <<"14">>,
    COMMAND_SECURE_INFO_PAIRING, COMMAND_SECURE_HELLO, COMMAND_SECURE_HELLO \o <<"/", "id", "/", "key">>,
    COMMAND_SECURE_AUTHENTICATE, COMMAND_SECURE_INIT, COMMAND_MINISERVER_TIME,
    COMMAND_AUDIO_CFG_READY, COMMAND_AUDIO_CFG_GETCONFIG,
    COMMAND_AUDIO_CFG_SETCONFIG, COMMAND_AUDIO_CFG_SETCONFIG \o <<"/", "Zm9v">>,
    COMMAND_AUDIO_CFG_GET_KEY, COMMAND_AUDIO_CFG_GET_MEDIA_FOLDER,
    COMMAND_AUDIO_CFG_GET_MEDIA_FOLDER \o <<"/", "root", "/", "0">>,
    <<"audio", "/", "cfg", "/", "getplaylists2">>, COMMAND_AUDIO_CFG_GET_PLAYLISTS,
    COMMAND_AUDIO_CFG_GET_PLAYLISTS \o <<"/", "user", "/", "LMS", "/", "0">>,
    COMMAND_AUDIO_CFG_GET_RADIOS, COMMAND_AUDIO_CFG_GET_ROOM_FAVS,
    COMMAND_AUDIO_CFG_GET_ROOM_FAVS \o <<"/", "14">>, COMMAND_AUDIO_CFG_GET_SYNCED_PLAYERS,
    AUDIO_GROUP \o <<"/", "update", "/", "new", "/", "14", ",", "15">>,
    <<"audio", "/", "14", "/", "status">>, <<"audio", "/", "99", "/", "status">>,
    <<"audio", "/", "14", "/", "getqueue">>, <<"audio", "/", "14", "/", "play">>,
    <<"audio", "/", "5", "/", "volume", "/", "3">>,
    <<"audio", "/", "14", "/", "volume", "/", "3">> }
RouteHeads == { <<"/">>, <<"x", "/">> }
RouteTails == { <<>>, <<"/">>, <<"/", "extra">>, <<"x">>, <<"/", "LMS">> }
RouteRequests ==
  {b \o t : b \in RouteBases, t \in RouteTails} \cup {h \o b : h \in RouteHeads, b \in RouteBases}

InitRoute == InitWith({<<"14">>}, {UnsetEnv})

NextRoute ==
  \/ SetupStart
  \/ \E url \in RouteRequests : HandleRequest(url)

SpecRoute == InitRoute /\ [][NextRoute]_vars

DiscoveryRoutes ==
  {"getradios", "getmediafolder", "getroomfavs", "getplaylists2", "getsyncedplayers",
   "getconfig", "ready", "getkey"}
\* the routes whose handler passes its own name to response()
ExplicitNameRoutes == {"getradios", "getmediafolder", "getroomfavs", "getplaylists2"}

\* C6, as stated: a request taken by a discovery/config route (getradios,
\* getmediafolder, getroomfavs, getplaylists2, getsyncedplayers, getconfig,
\* ready, getkey) is answered by an envelope whose result key is the route
\* name followed by "_result" and whose command is the request.
C6_RouteNameResult ==
  (last.op = "handleRequest" /\ last.route \in DiscoveryRoutes) =>
    /\ last.response.t = "envelope"
    /\ last.response.key = <<last.route, "_result">>
    /\ last.response.command = last.url

\* C6, amended: the answer of a discovery/config route is an envelope whose
\* command is the request; its result key is the route name plus "_result"
\* for getradios, getmediafolder, getroomfavs and getplaylists2, and for
\* getsyncedplayers, getconfig, ready and getkey it is the last path segment
\* of the request that starts with a lowercase letter plus "_result" (the
\* route name when the request is exactly the route's path).
C6_ResultKeyOfDiscoveryRoutes ==
  (last.op = "handleRequest" /\ last.route \in DiscoveryRoutes) =>
    LET parts == Split(last.url, "/")
    IN /\ last.response.t = "envelope"
       /\ last.response.command = last.url
       /\ IF last.route \in ExplicitNameRoutes
          THEN last.response.key = <<last.route, "_result">>
          ELSE \E i \in 1..Len(parts) :
                 /\ LowerStart(parts[i])
                 /\ \A j \in (i + 1)..Len(parts) : ~LowerStart(parts[j])
                 /\ last.response.key = parts[i] \o <<"_result">>
       /\ last.url \in {COMMAND_AUDIO_CFG_READY, COMMAND_AUDIO_CFG_GETCONFIG,
                        COMMAND_AUDIO_CFG_GET_KEY, COMMAND_AUDIO_CFG_GET_SYNCED_PLAYERS}
            => last.response.key = <<last.route, "_result">>

C6_Witness ==
  /\ last.op = "handleRequest"
  /\ last.route = "getkey"
  /\ last.url = COMMAND_AUDIO_CFG_GET_KEY \o <<"/", "extra">>
  /\ last.response.key = <<"extra", "_result">>
  /\ last.response.command = last.url

\* C7: whatever the request and whichever route takes it, the response of
\* the dispatcher is an envelope with one field "<name>_result" and a command
\* field equal to the request.
C7_EveryResponseIsEnvelope ==
  last.op = "handleRequest" =>
    /\ last.response.t = "envelope"
    /\ Len(last.response.key) >= 2
    /\ last.response.key[Len(last.response.key)] = "_result"
    /\ last.response.command = last.url

----------------------------------------------------------------------------
(* Zone and group commands over registries of notification-stream, stub    *)
(* and adapterless zones                                                   *)

ZoneCommand(id, tail) == <<"audio", "/", id, "/">> \o tail
GroupCommand(list) == AUDIO_GROUP \o <<"/", "update", "/", "new", "/">> \o list

CommandRequests ==
  {ZoneCommand(id, tail) :
     id \in {"14", UnknownId},
     tail \in {<<"volume", "/", "3">>, <<"volume">>, <<"play", "/", "0">>, <<"test", "/", "0">>}}
  \cup {GroupCommand(list) :
          list \in {<<"14", ",", "14", ",", "15">>, <<"14", ",", "15">>, <<"15", ",", "14">>,
                    <<"14">>, <<"14", ",", UnknownId>>, <<UnknownId, ",", "14">>}}
  \cup {AUDIO_GROUP \o <<"/", "update", "/", "new">>}

CommandEnv ==
  {[backend |-> "BackendBeolink", ip |-> "10.0.0.7"], [backend |-> "BackendFoo", ip |-> "10.0.0.7"]}

InitCommand == InitWith({<<"14", "15">>, <<"14">>}, CommandEnv)

NextCommand ==
  \/ SetupStart
  \/ \E ok \in BOOLEAN : ListenerSettled(ok)
  \/ \E url \in CommandRequests : HandleRequest(url)
  \/ \E i \in 1..MaxInflight : DeviceReply(i)

SpecCommand == InitCommand /\ [][NextCommand]_vars

\* the calls of the last turn made to the function or method fn
CallsOf(fn) == {i \in 1..Len(calls) : calls[i].fn = fn}

\* C8: a zone command "audio/<id>/<command>/<parameter>" for a configured
\* zone and a command of the vocabulary calls sendCommand(<command>,
\* <parameter>) exactly once, on the adapter of that zone and on no other,
\* and the ack is returned in the same turn, while a call the adapter makes
\* to its device is still in flight.
C8_OneSendCommandNoWait ==
  \A id \in DOMAIN zone : \A cmd \in AudioCommands : \A param \in Digits :
    (last.op = "handleRequest" /\ last.url = ZoneCommand(id, <<cmd, "/", param>>)) =>
      /\ Cardinality(CallsOf("sendCommand")) = 1
      /\ \A i \in CallsOf("sendCommand") :
           calls[i] = [fn |-> "sendCommand", id |-> id, command |-> Str(<<cmd>>),
                       param |-> Str(<<param>>)]
      /\ last.response = CommandAck
      /\ (zone[id].backendInstance = "BackendBeolink" /\ cmd \in DOMAIN actionMap)
           => \E k \in 1..Len(inflight) : inflight[k].id = id

\* C9: for a group command with a comma-separated id list whose first id is
\* a zone of the registry, sendGroupCommand is called exactly once, on the
\* adapter of that zone, with the first id as master and the remaining ids,
\* in their order, as members ("14,14,15": master 14, members 14 and 15).
C9_MasterAndMembers ==
  \A list \in {<<"14", ",", "14", ",", "15">>, <<"14", ",", "15">>, <<"15", ",", "14">>,
               <<"14">>, <<"14", ",", UnknownId>>} :
    (last.op = "handleRequest" /\ last.url = GroupCommand(list) /\ list[1] \in DOMAIN zone) =>
      /\ Cardinality(CallsOf("sendGroupCommand")) = 1
      /\ \A i \in CallsOf("sendGroupCommand") :
           /\ calls[i].id = list[1]
           /\ calls[i].master = <<list[1]>>
           /\ Len(calls[i].members) = (Len(list) - 1) \div 2
           /\ \A m \in 1..Len(calls[i].members) : calls[i].members[m] = <<list[2 * m + 1]>>

\* the group-join commands sent to zones in the last turn
JoinCalls ==
  {i \in CallsOf("sendCommandToZone") : calls[i].command = Str(<<"groupJoin">>)}

\* C10: whenever the notification-stream adapter handles a group command,
\* a group-join command naming the master is sent to every member id that
\* differs from the master id, once per occurrence in the list, no join is
\* sent to any other id, and the master zone is never sent a join, however
\* often its id occurs among the members.
C10_JoinEachMemberNotMaster ==
  \A g \in CallsOf("sendGroupCommand") :
    zone[calls[g].id].backendInstance = "BackendBeolink" =>
      LET master == calls[g].master
          members == calls[g].members
      IN /\ \A m \in SeqToSet(members) \ {master} :
              Cardinality({j \in JoinCalls : calls[j].id = Str(m)})
                = Cardinality({k \in 1..Len(members) : members[k] = m})
         /\ \A j \in JoinCalls :
              /\ calls[j].id # Str(master)
              /\ calls[j].id.s \in SeqToSet(members)
              /\ calls[j].param = Str(master)
         /\ \A c \in CallsOf("sendCommand") :
              ~(calls[c].id = calls[g].id /\ calls[c].command = Str(<<"groupJoin">>))

C10_Witness ==
  /\ last.op = "handleRequest"
  /\ last.url = GroupCommand(<<"14", ",", "14", ",", "15">>)
  /\ zone["14"].backendInstance = "BackendBeolink"
  /\ "15" \in DOMAIN zone /\ zone["15"].backendInstance = "BackendBeolink"
  /\ Cardinality(JoinCalls) = 1
  /\ \E j \in JoinCalls : calls[j].id = Str(<<"15">>) /\ calls[j].param = Str(<<"14">>)
  /\ \E k \in 1..Len(inflight) : inflight[k] = [method |-> "POST", id |-> "15",
                                                 path |-> "Device/OneWayJoin"]

----------------------------------------------------------------------------
(* Failure handling of the dispatcher, the registry and setup *)

\* C11: a request that matches no route, the empty request and a request
\* without a lowercase-starting segment included, is answered with a generic
\* acknowledgement envelope (null result, the request as command).
C11_FallbackIsEnvelope ==
  (last.op = "handleRequest" /\ last.route \in {"empty", "unknown"}) =>
    /\ last.response.t = "envelope"
    /\ last.response.result = Null
    /\ last.response.command = last.url

\* C12: a zone command or a status request naming a zone id that is not in
\* the registry leaves no unhandled asynchronous failure behind, invokes no
\* adapter and is answered.
C12_UnknownZoneIsolated ==
  (/\ last.op = "handleRequest"
   /\ last.route \in {"command", "status"}
   /\ Key(At(Split(last.url, "/"), 1)) \notin DOMAIN zone) =>
    /\ rejections = <<>>
    /\ CallsOf("sendCommand") = {}
    /\ last.response.t = "envelope"

\* C13: after setup every configured zone has an adapter; a zone whose
\* adapter kind or address is missing, or whose kind is not a known kind, has
\* the stub adapter, with the loopback address when kind or address is missing.
C13_StubWhenKindUnusable ==
  setupPc = "done" =>
    \A id \in SeqToSet(players) :
      /\ id \in DOMAIN zone
      /\ LET missing == env[id].backend = Unset \/ env[id].ip = Unset
         IN /\ (missing \/ env[id].backend \notin backendMap)
                 => zone[id].backendInstance = "BackendExample"
            /\ missing => zone[id].ip = "127.0.0.1"

\* the position of a player id in the configured list
PlayerIndex(id) == CHOOSE k \in 1..Len(players) : players[k] = id

\* C14: when the initialize() of one zone's adapter fails, every zone
\* configured after it that setup reaches has its record created and
\* initialize() called on its adapter, and setup does not end before it has
\* reached every configured zone.
C14_InitializeFailureIsolated ==
  [][\A f \in 1..Len(calls') :
       (calls'[f].fn = "initialize" /\ calls'[f].outcome = "rejected") =>
         /\ \A k \in (PlayerIndex(calls'[f].id) + 1)..Len(players) :
              players[k] \in DOMAIN zone' =>
                \E c \in 1..Len(calls') :
                  calls'[c].fn = "initialize" /\ calls'[c].id = players[k]
         /\ setupPc' = "done" => SeqToSet(players) \subseteq DOMAIN zone']_vars

----------------------------------------------------------------------------
(* The lifetime of the zones under configuration updates *)

ConfigRequests ==
  { COMMAND_AUDIO_CFG_SETCONFIG \o <<"/", "W3siMTQifV0">>,
    COMMAND_AUDIO_CFG_SETCONFIG \o <<"/", "W3siMTQiLCIxNSJ9XQ">>,
    COMMAND_AUDIO_CFG_SETCONFIG \o <<"/", "Zm9v">>,
    COMMAND_AUDIO_CFG_SETCONFIG,
    ZoneCommand("14", <<"volume", "/", "3">>) }

ConfigEnv == {[backend |-> "BackendBeolink", ip |-> "10.0.0.7"], UnsetEnv}

InitConfig == InitWith({<<"14">>}, ConfigEnv)

NextConfig ==
  \/ SetupStart
  \/ \E ok \in BOOLEAN : ListenerSettled(ok)
  \/ \E url \in ConfigRequests : HandleRequest(url)
  \/ ConfigProcessed
  \/ \E ok \in BOOLEAN : ResetupSettled(ok)
  \/ \E i \in 1..MaxInflight : DeviceReply(i)

SpecConfig == InitConfig /\ [][NextConfig]_vars

----------------------------------------------------------------------------
(* One Beolink zone: renewal timer, notification streams, volume commands *)

Message(type, data) == [notification |-> [type |-> type, data |-> data]]

Notifications ==
  { Message("VOLUME", [speaker |-> [level |-> Num(MaxVolume)]]),
    Message("VOLUME", <<>>),
    Message("PROGRESS_INFORMATION", [state |-> Str("play")]),
    Message("SHUTDOWN", <<>>) }

StreamRequests == {ZoneCommand("14", <<"volume", "/", "3">>), ZoneCommand("14", <<"volume">>)}

InitStream == InitWith({<<"14">>}, {[backend |-> "BackendBeolink", ip |-> "10.0.0.7"]})

NextStream ==
  \/ SetupStart
  \/ \E ok \in BOOLEAN : ListenerSettled(ok)
  \/ \E url \in StreamRequests : HandleRequest(url)
  \/ \E a \in Instances : TimerTick(a)
  \/ \E a \in Instances, ok \in BOOLEAN : RenewSettled(a, ok)
  \/ \E a \in Instances, msg \in Notifications : Notification(a, msg)
  \/ \E i \in 1..MaxInflight : DeviceReply(i)

SpecStream == InitStream /\ [][NextStream]_vars

\* C15: once a zone is created its adapter object never changes, and once setup
\* is complete the set of zones never changes, whatever request (a configuration
\* update included) or adapter event is handled.
C15_ZonesAndAdaptersFixed ==
  [][/\ \A id \in DOMAIN zone :
          /\ id \in DOMAIN zone'
          /\ zone'[id].instance = zone[id].instance
          /\ zone'[id].backendInstance = zone[id].backendInstance
     /\ (setupPc = "done" /\ setups = {}) => DOMAIN zone' = DOMAIN zone]_vars

\* C16: the Track of an existing zone changes only in an updateZoneTrack step for
\* that zone, which broadcasts the Track it has written; no other step changes
\* or resets it.
C16_UpdateTrackSingleWriter ==
  [][\A id \in DOMAIN zone \cap DOMAIN zone' :
       zone'[id].track # zone[id].track =>
         \E k \in 1..Len(bcast') : bcast'[k] = AudioEventMessage(zone'[id].track)]_vars

\* the required fields of a Track and the type of each
TrackFieldType ==
  [power |-> "string", volume |-> "number", mode |-> "string", audiotype |-> "number",
   plrepeat |-> "number", plshuffle |-> "number", time |-> "number", duration |-> "number",
   coverurl |-> "string", players |-> "array"]

\* C17: in every state every required field of every zone's Track holds a
\* defined value of its type, never undefined and never not-a-number, whatever
\* notifications (with data fields missing) and commands (a volume command
\* without parameter) were handled.
C17_TrackFieldsDefined ==
  \A id \in DOMAIN zone : \A f \in DOMAIN TrackFieldType :
    /\ f \in DOMAIN zone[id].track
    /\ zone[id].track[f].t = TrackFieldType[f]

\* a renewal tick of a Beolink adapter whose handle is null: nothing is thrown,
\* no stream is destroyed and no stream is added in that turn
RenewalWithoutStreamIsQuiet ==
  [][(/\ last'.op = "timerTick"
      /\ constructed[last'.inst].kind = "BackendBeolink"
      /\ last'.handle = "null") =>
        /\ rejections' = <<>>
        /\ \A k \in 1..Len(calls') : calls'[k].fn # "destroy"
        /\ streams' = streams
        /\ notifyStream' = notifyStream]_vars

\* C18: closing or renewing the notification subscription of an adapter that has
\* none open raises no exception, closes nothing, and never leaves the adapter
\* with two subscriptions (live streams) at once.
C18_RenewWithoutSubscription ==
  /\ RenewalWithoutStreamIsQuiet
  /\ [](\A a \in Instances : streams[a] <= 1)

----------------------------------------------------------------------------
(* The open-connection set under repeated registration *)

InitHub == InitWith({<<"14">>}, {UnsetEnv})

NextHub ==
  \/ SetupStart
  \/ \E c \in Conns : Register(c)
  \/ \E c \in Conns : Unregister(c)
  \/ \E c \in Conns : WsDrop(c)
  \/ \E p \in {[volume |-> Num(20)], <<>>} : UpdateTrackCall("14", p)
  \/ \E a \in Instances : TimerTick(a)

SpecHub == InitHub /\ [][NextHub]_vars

\* C19: registering a connection that is in the set, and unregistering one that
\* is not, leave the set as it was (registering one that is not in it adds just
\* it, unregistering one that is in it removes just it), and a connection in the
\* set, registered once or several times, gets every broadcast message once.
C19_RegisterIdempotent ==
  [][/\ last'.op = "register" =>
          /\ wsConnections' = wsConnections \cup {last'.conn}
          /\ last'.conn \in wsConnections => wsConnections' = wsConnections
     /\ last'.op = "unregister" =>
          /\ wsConnections' = wsConnections \ {last'.conn}
          /\ last'.conn \notin wsConnections => wsConnections' = wsConnections
     /\ \A c \in Conns :
          (c \in wsConnections' /\ connected'[c] /\ last'.op \in {"updateTrack", "timerTick"})
            => delivered'[c] = bcast']_vars

C19_Witness ==
  /\ last.op = "updateTrack"
  /\ \E c \in wsConnections :
       /\ registrations[c] = MaxRegister
       /\ connected[c]
       /\ Len(delivered[c]) = 1
       /\ delivered[c] = bcast

\* the group request names no id list, or a master that is not in the registry
\* or has no adapter
MasterUnusable(url) ==
  LET Group == At(Split(url, "/"), 5)
  IN \/ Group = Undefined
     \/ LET key == Key(Str(Head(Split(Group.s, ","))))
        IN key \notin DOMAIN zone \/ zone[key].backendInstance = "null"

\* C20: a group command whose master zone cannot be used (no id list, master id
\* not in the registry, master without adapter) is logged and swallowed: no
\* promise is rejected unhandled and the dispatcher returns its acknowledgement.
C20_GroupFailureSwallowed ==
  (last.op = "handleRequest" /\ last.route = "dgroup" /\ MasterUnusable(last.url)) =>
    /\ rejections = <<>>
    /\ last.response = EmptyCommand(last.url, <<>>)

----------------------------------------------------------------------------
(* The adapter factory, the process lifetime and the commands: C21 to C30 *)

\* C21: for a name of backendMap the factory returns a new adapter object of that
\* class, and for any other name a "kind not found" failure, never something
\* that is not an adapter; here for the name of every zone the factory was
\* called for by setupZones.
C21_FactoryAdapterOrFailure ==
  \A id \in DOMAIN zone :
    LET made == CreateBackend(zone[id].backend)
    IN /\ zone[id].backendInstance = made
       /\ IF zone[id].backend \in backendMap
          THEN made = zone[id].backend /\ zone[id].instance \in 1..Len(constructed)
          ELSE made = "KindNotFound"

\* the process from startup to a shutdown signal, connections coming and going
InitShutdown == InitWith({<<"14">>}, {UnsetEnv})

NextShutdown ==
  \/ SetupStart
  \/ StartWebServers
  \/ \E c \in Conns : Accept(c)
  \/ \E c \in Conns : WsDrop(c)
  \/ \E c \in Conns : WsClose(c)
  \/ \E a \in Instances : TimerTick(a)
  \/ \E p \in {[volume |-> Num(20)], <<>>} : UpdateTrackCall("14", p)
  \/ Shutdown

SpecShutdown == InitShutdown /\ [][NextShutdown]_vars

\* C22: a shutdown signal, whenever it arrives, is handled to its end: close is
\* called on every connection that is open, no listener is left listening, and
\* the process exits through handleShutdown (code 0), not through an error.
C22_ShutdownClosesAndStops ==
  last.op = "shutdown" =>
    /\ proc = [state |-> "exited", code |-> 0]
    /\ rejections = <<>>
    /\ listeners = {}
    /\ \A c \in last.open :
         /\ ~connected[c]
         /\ \E k \in 1..Len(calls) : calls[k] = [fn |-> "close", conn |-> c, reasonCode |-> 1000]

\* sendCommandToZone(playerId, command, param), as the dispatcher, an adapter
\* or any other caller calls it
SendCommandCall(id, command, param) ==
  /\ setupPc = "done"
  /\ LET w == SendCommandToZone(World, Str(<<id>>), Str(<<command>>), param)
     IN /\ Len(w.inflight) <= MaxInflight
        /\ VolumeInRange(w)
        /\ Commit(w)
        /\ last' = [op |-> "sendCommand", id |-> id, command |-> command, param |-> param]
  /\ UNCHANGED <<cfgVars, connVars, setupPc, setupIdx>>

\* the command names handed to the adapters: the vocabulary of the dispatcher
\* in part, the group command, and names that no adapter knows
CommandNames == {"on", "off", "test", "play", "volume", "groupJoin", "foo", "constructor", ""}

InitAdapter ==
  InitWith({<<"14">>}, {[backend |-> "BackendBeolink", ip |-> "10.0.0.7"], UnsetEnv})

NextAdapter ==
  \/ SetupStart
  \/ \E ok \in BOOLEAN : ListenerSettled(ok)
  \/ \E command \in CommandNames, param \in {Str(<<"3">>), Undefined} :
       SendCommandCall("14", command, param)
  \/ \E i \in 1..MaxInflight : DeviceReply(i)

SpecAdapter == InitAdapter /\ [][NextAdapter]_vars

\* C23: sendCommand of the notification-stream adapter with a command name that
\* is not a key of its action map (on, off, test, any other name) makes no
\* device call, changes no Track, broadcasts nothing and raises no error.
C23_UnmappedCommandNoEffect ==
  [][(/\ last'.op = "sendCommand"
      /\ zone[last'.id].backendInstance = "BackendBeolink"
      /\ last'.command \notin DOMAIN actionMap) =>
        /\ inflight' = inflight
        /\ zone' = zone
        /\ bcast' = <<>>
        /\ rejections' = <<>>]_vars

\* group commands over registries of stub, Sonos and Beolink zones
GroupRequests ==
  {GroupCommand(list) : list \in {<<"14", ",", "15">>, <<"15", ",", "14">>,
                                  <<"14", ",", "14", ",", "15">>, <<"14">>}}

GroupEnv ==
  {UnsetEnv, [backend |-> "BackendSonos", ip |-> "10.0.0.7"],
   [backend |-> "BackendBeolink", ip |-> "10.0.0.7"]}

InitGroup == InitWith({<<"14", "15">>}, GroupEnv)

NextGroup ==
  \/ SetupStart
  \/ \E ok \in BOOLEAN : ListenerSettled(ok)
  \/ \E url \in GroupRequests : HandleRequest(url)
  \/ \E i \in 1..MaxInflight : DeviceReply(i)

SpecGroup == InitGroup /\ [][NextGroup]_vars

\* the master of a group request: the zone key of the first id of its list
MasterOf(url) == Key(Str(Head(Split(At(Split(url, "/"), 5).s, ","))))

\* C24: a group command whose master zone has an adapter without grouping (the
\* stub adapter, the Sonos adapter) reaches that adapter and does nothing more:
\* no command is sent to any zone or device, no Track changes, nothing is
\* broadcast.
C24_GroupNotImplementedNoEffect ==
  [][(/\ last'.op = "handleRequest"
      /\ last'.route = "dgroup"
      /\ MasterOf(last'.url) \in DOMAIN zone
      /\ zone[MasterOf(last'.url)].backendInstance \in {"BackendExample", "BackendSonos"}) =>
        /\ \A k \in 1..Len(calls') :
             /\ calls'[k].fn \notin {"sendCommandToZone", "sendCommand"}
             /\ calls'[k].fn = "sendGroupCommand" => calls'[k].id = MasterOf(last'.url)
        /\ \E k \in 1..Len(calls') : calls'[k].fn = "sendGroupCommand"
        /\ inflight' = inflight
        /\ zone' = zone
        /\ bcast' = <<>>
        /\ \A c \in Conns : delivered'[c] = <<>>
        /\ rejections' = <<>>]_vars

C24_Witness ==
  /\ last.op = "handleRequest"
  /\ last.url = GroupCommand(<<"14", ",", "15">>)
  /\ zone["14"].backendInstance = "BackendExample"
  /\ zone["15"].backendInstance = "BackendBeolink"
  /\ \E k \in 1..Len(calls) : calls[k].fn = "sendGroupCommand" /\ calls[k].members = <<<<"15">>>>
  /\ bcast = <<>>

\* handleWebSocketRequest: a utf8 message of the connection c is handled and
\* the response, or '' when there is none, is sent to c with sendUTF; what
\* the handler broadcast was sent to the connections while it ran, before that
WsRequest(c, url) ==
  /\ c \in wsConnections
  /\ connected[c]
  /\ setupPc # "idle"
  /\ LET handled == HandleLoxoneCommand(World, url)
         response == IF handled.ret = Undefined THEN <<>> ELSE <<handled.ret>>
         w == [handled EXCEPT !.delivered[c] =
                                 Append(@, [event |-> "response", body |-> response])]
     IN /\ Len(w.inflight) <= MaxInflight
        /\ Len(w.pendingCfg) <= MaxInflight
        /\ VolumeInRange(w)
        /\ Commit(w)
        /\ last' = [op |-> "wsRequest", conn |-> c, url |-> url, route |-> Route(url),
                    response |-> handled.ret]
  /\ UNCHANGED <<cfgVars, connVars, setupPc, setupIdx>>

\* requests of WebSocket clients to a Beolink zone
TransportRequests ==
  { ZoneCommand("14", <<"volume", "/", "3">>), ZoneCommand("14", <<"play", "/", "0">>),
    <<"audio", "/", "14", "/", "status">>, <<>> }

InitTransport == InitWith({<<"14">>}, {[backend |-> "BackendBeolink", ip |-> "10.0.0.7"]})

NextTransport ==
  \/ SetupStart
  \/ \E ok \in BOOLEAN : ListenerSettled(ok)
  \/ \E c \in Conns : WsConnect(c)
  \/ \E c \in Conns : WsDrop(c)
  \/ \E c \in Conns : WsClose(c)
  \/ \E c \in Conns, url \in TransportRequests : WsRequest(c, url)
  \/ \E i \in 1..MaxInflight : DeviceReply(i)

SpecTransport == InitTransport /\ [][NextTransport]_vars

\* C25: the broadcast of the Track update that a zone command causes is sent
\* after the response to that command: on the connection of the requester no
\* audio event of the turn comes before the response.
C25_BroadcastAfterResponse ==
  (last.op = "wsRequest" /\ last.route = "command") =>
    LET sent == delivered[last.conn]
    IN \A i \in 1..Len(sent) :
         sent[i].event = "audio_event" =>
           \E j \in 1..(i - 1) : sent[j].event = "response"

\* C26: for every request the dispatcher routes as a zone command, also one
\* with segments before the zone-command part, sendCommandToZone is called with
\* a numeric zone id and a command name of the vocabulary.
C26_CommandArgumentsValidated ==
  (last.op = "handleRequest" /\ last.route = "command") =>
    \A k \in CallsOf("sendCommandToZone") :
      /\ calls[k].id.t = "string"
      /\ IsDigits(calls[k].id.s)
      /\ calls[k].command.t = "string"
      /\ Len(calls[k].command.s) = 1
      /\ calls[k].command.s[1] \in AudioCommands

\* C27: when the device call made for a command fails, the zone's Track is what
\* it was before the command: the volume read by adjustVolume before its PUT is
\* the volume of the zone after the failed PUT.
C27_FailedCallIsNoOp ==
  (last.op = "deviceReply" /\ ~last.ok /\ last.call.method = "PUT") =>
    ToNumber(zone[last.call.id].track.volume) = last.call.currentVolume

----------------------------------------------------------------------------
(* The notification subscription of one Beolink zone over time: C28, C29 *)

NextRenewal ==
  \/ SetupStart
  \/ \E ok \in BOOLEAN : ListenerSettled(ok)
  \/ \E a \in Instances : TimerTick(a)
  \/ \E a \in Instances, ok \in BOOLEAN : RenewSettled(a, ok)
  \/ \E a \in Instances, held \in BOOLEAN : StreamError(a, held)
  \/ \E a \in Instances, msg \in Notifications : Notification(a, msg)

SpecRenewal == InitStream /\ [][NextRenewal]_vars

\* setInterval fires its callback again and again while the process runs, and
\* a reachable device answers the GET of the notification url with a stream
FairRenewal ==
  \A a \in Instances : WF_vars(TimerTick(a)) /\ SF_vars(RenewSettled(a, TRUE))

SpecRenewalFair == SpecRenewal /\ FairRenewal

\* the Beolink adapter object a has its renewal timer and holds no live stream
Down(a) ==
  /\ a \in 1..Len(constructed) /\ constructed[a].kind = "BackendBeolink"
  /\ timers[a] > 0 /\ notifyStream[a] # "open"

\* C28: a stream error or a failed open sends no new GET in its own turn; the
\* next renewal tick destroys the stream the handle holds and sends the GET;
\* and with a reachable device an adapter without a live subscription
\* eventually holds an open one again.
C28_RecoveryAtNextRenewal ==
  /\ [][(\/ last'.op = "streamError"
         \/ (last'.op \in {"renewSettled", "listenerSettled"} /\ ~last'.ok))
        => (/\ \A a \in Instances : renewGet'[a] <= renewGet[a]
            /\ pendingGet' \subseteq pendingGet)]_vars
  /\ [][(last'.op = "timerTick" /\ constructed[last'.inst].kind = "BackendBeolink")
        => (/\ notifyStream'[last'.inst] = "null"
            /\ renewGet'[last'.inst] = renewGet[last'.inst] + 1
            /\ (last'.handle # "null"
                  => \E k \in 1..Len(calls') : calls'[k] = [fn |-> "destroy", inst |-> last'.inst]))]_vars
  /\ \A a \in Instances : Down(a) ~> (notifyStream[a] = "open")

\* a renewal tick finds the handle holding a stream that had an error
C28_Witness ==
  /\ last.op = "timerTick" /\ last.handle = "errored"
  /\ notifyStream[last.inst] = "null" /\ renewGet[last.inst] > 0

\* C29: at every moment the adapter objects of one zone have together at most
\* one live notification stream and at most one renewal timer, and every live
\* stream is the one its adapter's handle holds.
C29_OneSubscriptionOneTimer ==
  \A a, b \in 1..Len(constructed) :
    constructed[a].playerid = constructed[b].playerid =>
      /\ streams[a] <= 1 /\ timers[a] <= 1
      /\ a # b => ((streams[a] = 0 \/ streams[b] = 0) /\ (timers[a] = 0 \/ timers[b] = 0))
      /\ streams[a] > 0 => notifyStream[a] = "open"

----------------------------------------------------------------------------
(* Volume commands of one Beolink zone with several device calls in flight: C30 *)

MaxPending == 2

VolumeRequests == {ZoneCommand("14", <<"volume", "/", "3">>), ZoneCommand("14", <<"volume", "/", "-3">>)}

ProgressNotifications ==
  { Message("PROGRESS_INFORMATION", [state |-> Str("play")]),
    Message("PROGRESS_INFORMATION", [state |-> Str("pause")]) }

NextVolume ==
  \/ SetupStart
  \/ \E ok \in BOOLEAN : ListenerSettled(ok)
  \/ \E url \in VolumeRequests : HandleRequestWithin(url, MaxPending)
  \/ \E a \in Instances, msg \in ProgressNotifications : Notification(a, msg)
  \/ \E i \in 1..MaxPending : DeviceReply(i)

SpecVolume == InitStream /\ [][NextVolume]_vars

\* the PUT calls in flight for the zone, oldest first
PutsInFlight(id) == SelectSeq(inflight, LAMBDA r : r.method = "PUT" /\ r.id = id)

\* C30: a volume command for a Beolink zone, also one issued while device calls
\* are in flight, adds its change to the volume the zone has at that moment and
\* leaves every other field of the Track; a notification and the reply of the
\* device leave the volume; so a command with change b, issued while the call
\* of a command with change a is in flight and the volume is still the one
\* that command wrote, leaves the volume at the old one plus a plus b.
C30_VolumeRunToCompletion ==
  /\ [][(last'.op = "handleRequest" /\ "14" \in DOMAIN zone
           /\ zone["14"].backendInstance = "BackendBeolink")
        => zone'["14"].track =
             [zone["14"].track EXCEPT
                !.volume = JsAdd(ToNumber(@), ToNumber(At(Split(last'.url, "/"), 3)))]]_vars
  /\ [][last'.op \in {"notification", "deviceReply"}
        => \A id \in DOMAIN zone : zone'[id].track.volume = zone[id].track.volume]_vars
  /\ [][(/\ last'.op = "handleRequest"
          /\ PutsInFlight("14") # <<>>
          /\ zone["14"].track.volume = PutsInFlight("14")[Len(PutsInFlight("14"))].level)
        => LET first == PutsInFlight("14")[Len(PutsInFlight("14"))]
               a == first.level.n - first.currentVolume.n
               b == ToNumber(At(Split(last'.url, "/"), 3)).n
           IN zone'["14"].track.volume = Num(first.currentVolume.n + a + b)]_vars

\* two volume commands in flight, the second read the volume the first wrote,
\* and a notification had changed the mode before them
C30_Witness ==
  /\ last.op = "handleRequest" /\ Len(PutsInFlight("14")) = 2
  /\ PutsInFlight("14")[1].level = Num(3) /\ PutsInFlight("14")[2].level = Num(0)
  /\ zone["14"].track.volume = Num(0) /\ zone["14"].track.mode = Str("play")

----------------------------------------------------------------------------
(* The order of the routes, requests where a literal command and a pattern *)
(* both match: C31 *)

\* the literal command names of requesthandler.ts and the route of each
LiteralCommands ==
  { [name |-> "miniservertime", text |-> COMMAND_MINISERVER_TIME],
    [name |-> "pairing", text |-> COMMAND_SECURE_INFO_PAIRING],
    [name |-> "hello", text |-> COMMAND_SECURE_HELLO],
    [name |-> "authenticate", text |-> COMMAND_SECURE_AUTHENTICATE],
    [name |-> "init", text |-> COMMAND_SECURE_INIT],
    [name |-> "ready", text |-> COMMAND_AUDIO_CFG_READY],
    [name |-> "getconfig", text |-> COMMAND_AUDIO_CFG_GETCONFIG],
    [name |-> "setconfig", text |-> COMMAND_AUDIO_CFG_SETCONFIG],
    [name |-> "dgroup", text |-> AUDIO_GROUP],
    [name |-> "getkey", text |-> COMMAND_AUDIO_CFG_GET_KEY],
    [name |-> "getmediafolder", text |-> COMMAND_AUDIO_CFG_GET_MEDIA_FOLDER],
    [name |-> "getplaylists2", text |-> COMMAND_AUDIO_CFG_GET_PLAYLISTS],
    [name |-> "getradios", text |-> COMMAND_AUDIO_CFG_GET_RADIOS],
    [name |-> "getroomfavs", text |-> COMMAND_AUDIO_CFG_GET_ROOM_FAVS],
    [name |-> "getsyncedplayers", text |-> COMMAND_AUDIO_CFG_GET_SYNCED_PLAYERS] }

\* what follows the literal command: nothing, or text a pattern matches
OverlapTails ==
  { <<>>, <<"/", "0">>, <<"/", "audio", "/", "14", "/", "play">>,
    <<"/", "audio", "/", "14", "/", "status">>, <<"/", "audio", "/", "14", "/", "getqueue">> }

OrderRequests ==
  {c.text \o t : c \in LiteralCommands, t \in OverlapTails}
  \cup {ZoneCommand("14", <<"play">>), ZoneCommand("14", <<"status">>), <<"foo">>}

NextOrder ==
  \/ SetupStart
  \/ \E url \in OrderRequests : HandleRequest(url)

SpecOrder == InitWith({<<"14">>, <<"14", "15">>}, {UnsetEnv}) /\ [][NextOrder]_vars

\* C31: a request that starts with a literal command (is that command, for
\* the two routes compared with ===; has a "/" after it, for getroomfavs) is
\* handled by the route of that command, also when the rest of it matches the
\* pattern of a parameterized route.
C31_LiteralRouteFirst ==
  last.op = "handleRequest" =>
    \A c \in LiteralCommands :
      (/\ StartsWith(last.url, c.text)
       /\ c.name \in {"miniservertime", "pairing"} => last.url = c.text
       /\ c.name = "getroomfavs" => Len(last.url) > Len(c.text))
        => last.route = c.name

----------------------------------------------------------------------------
(* The same request on the HTTP channel and on a WebSocket connection: C32 *)

\* handleHttpRequest: req.url is the request-target of the request line, the
\* request text after a "/".  A target under /cors-proxy is handed to the
\* proxy; any other is handed to handleRequest as it is, and the response is
\* the body of a 200 reply.
HttpRequest(url) ==
  /\ setupPc # "idle"
  /\ IF StartsWith(url, <<"/", "cors-proxy">>)
     THEN /\ Commit(World)
          /\ last' = [op |-> "httpRequest", url |-> url, route |-> "cors-proxy",
                      response |-> Undefined]
     ELSE LET w == HandleLoxoneCommand(World, url)
          IN /\ Len(w.inflight) <= MaxInflight
             /\ Len(w.pendingCfg) <= MaxInflight
             /\ VolumeInRange(w)
             /\ Commit(w)
             /\ last' = [op |-> "httpRequest", url |-> url, route |-> Route(url),
                         response |-> w.ret]
  /\ UNCHANGED <<cfgVars, connVars, setupPc, setupIdx>>

ChannelRequests ==
  { COMMAND_AUDIO_CFG_READY, COMMAND_AUDIO_CFG_GETCONFIG, COMMAND_AUDIO_CFG_GET_KEY,
    COMMAND_SECURE_HELLO \o <<"/", "id", "/", "key">>,
    <<"audio", "/", "14", "/", "status">>, ZoneCommand("14", <<"play", "/", "0">>),
    <<"audio", "/", "14", "/", "getqueue", "/", "0", "/", "5">>,
    COMMAND_SECURE_AUTHENTICATE, COMMAND_SECURE_INIT, COMMAND_MINISERVER_TIME,
    COMMAND_SECURE_INFO_PAIRING, COMMAND_AUDIO_CFG_GET_RADIOS,
    <<"cors-proxy">>, <<"foo">>, <<>> }

NextChannel ==
  \/ SetupStart
  \/ \E c \in Conns : WsConnect(c)
  \/ \E c \in Conns : WsDrop(c)
  \/ \E c \in Conns : WsClose(c)
  \/ \E c \in Conns, url \in ChannelRequests : WsRequest(c, url)
  \/ \E url \in ChannelRequests : HttpRequest(<<"/">> \o url)

SpecChannel == InitWith({<<"14">>}, {UnsetEnv}) /\ [][NextChannel]_vars

\* a response without the request text it echoes
Payload(rsp) ==
  IF rsp # Undefined /\ rsp.t = "envelope" THEN [key |-> rsp.key, result |-> rsp.result]
  ELSE rsp

\* C32: a request that arrives on the HTTP channel is routed, makes the calls
\* and gets the response (up to the echoed request text) that the same request
\* gets in the same state when it arrives as a message of a WebSocket
\* connection.
C32_SameOnBothChannels ==
  [][last'.op = "httpRequest" =>
       LET request == Tail(last'.url)
           ws == HandleLoxoneCommand(World, request)
       IN /\ last'.route = Route(request)
          /\ calls' = ws.calls
          /\ zone' = ws.zone
          /\ Payload(last'.response) = Payload(ws.ret)]_vars

----------------------------------------------------------------------------
(* The notifications of a Beolink device and the fields they write: C33 *)

NotifyMessages ==
  { Message("VOLUME", [speaker |-> [level |-> Num(MaxVolume)]]),
    Message("VOLUME", <<>>),
    Message("VOLUME", [speaker |-> [level |-> Num(0)]]),
    Message("SOURCE", [friendlyName |-> Str("name")]),
    Message("SOURCE", <<>>),
    Message("PROGRESS_INFORMATION", [state |-> Str("play")]),
    Message("PROGRESS_INFORMATION", [state |-> Str("pause"), playQueueItemId |-> Str("AUX")]),
    Message("NOW_PLAYING_STORED_MUSIC", [artist |-> Str("artist"), name |-> Str("name")]),
    Message("SHUTDOWN", <<>>),
    Message("NOW_PLAYING_ENDED", <<>>),
    Message("NOW_PLAYING_NET_RADIO", [name |-> Str("name")]) }

NextNotify ==
  \/ SetupStart
  \/ \E ok \in BOOLEAN : ListenerSettled(ok)
  \/ \E a \in Instances, msg \in NotifyMessages : Notification(a, msg)

SpecNotify == InitStream /\ [][NextNotify]_vars

\* the fields in which two tracks differ
Changed(before, after) ==
  {f \in DOMAIN before \cup DOMAIN after :
     f \notin DOMAIN before \/ f \notin DOMAIN after \/ before[f] # after[f]}

ResetFields == {"audiotype", "artist", "album", "title", "duration", "coverurl"}

\* C33: a notification writes the Track of the zone of its adapter only; a
\* VOLUME notification changes no field but volume; SHUTDOWN and
\* NOW_PLAYING_ENDED set audiotype and duration to 0 and artist, album, title
\* and coverurl to '' and change no other field; a notification of a type
\* without a case changes no field.
C33_NotificationTable ==
  [][last'.op = "notification" =>
       LET id == constructed[last'.inst].playerid
           type == last'.msg.notification.type
           before == zone[id].track
           after == zone'[id].track
       IN /\ \A other \in DOMAIN zone \ {id} : zone'[other] = zone[other]
          /\ type = "VOLUME" => Changed(before, after) \subseteq {"volume"}
          /\ type \in {"SHUTDOWN", "NOW_PLAYING_ENDED"} =>
               /\ Changed(before, after) \subseteq ResetFields
               /\ after.audiotype = Num(0) /\ after.duration = Num(0)
               /\ after.artist = Str("") /\ after.album = Str("")
               /\ after.title = Str("") /\ after.coverurl = Str("")
          /\ type \notin {"SOURCE", "VOLUME", "NOW_PLAYING_STORED_MUSIC", "PROGRESS_INFORMATION",
                          "SHUTDOWN", "NOW_PLAYING_ENDED"} => after = before]_vars

\* the end of a track after the volume, the mode and the title had been set
\* by earlier notifications
C33_Witness ==
  /\ last.op = "notification" /\ last.msg.notification.type = "NOW_PLAYING_ENDED"
  /\ zone["14"].track.volume = Num(MaxVolume) /\ zone["14"].track.mode = Str("play")
  /\ zone["14"].track.title = Str("") /\ zone["14"].track.audiotype = Num(0)

\* the routes that answer a query: status, queue, discovery, config read,
\* handshake, and the fallback
QueryRoutes ==
  DiscoveryRoutes \cup {"status", "getqueue", "miniservertime", "pairing", "hello",
                        "authenticate", "init", "unknown", "empty"}

\* C34: handling a request of a query route, on either channel, changes no
\* zone and no Track, leaves the set of open connections, calls no adapter,
\* starts no device call and broadcasts nothing.
C34_QueryRoutesStateFree ==
  [][(last'.op \in {"wsRequest", "httpRequest"} /\ last'.route \in QueryRoutes)
       => /\ zone' = zone
          /\ wsConnections' = wsConnections
          /\ calls' = <<>>
          /\ bcast' = <<>>
          /\ inflight' = inflight
          /\ rejections' = <<>>]_vars

\* a status request of an open connection, answered with the track of the zone
C34_Witness ==
  /\ last.op = "wsRequest" /\ last.route = "status"
  /\ last.conn \in wsConnections /\ "14" \in DOMAIN zone
  /\ last.response.result = <<JsonStringify(zone["14"].track)>>

----------------------------------------------------------------------------
(* Status requests between track updates and configuration updates: C35 *)

StatusRequests ==
  { <<"audio", "/", "14", "/", "status">>, <<"audio", "/", "15", "/", "status">>,
    ZoneCommand("14", <<"volume", "/", "3">>),
    COMMAND_AUDIO_CFG_SETCONFIG \o <<"/", "W3siMTQiLCIxNSJ9XQ">> }

NextStatus ==
  \/ SetupStart
  \/ \E ok \in BOOLEAN : ListenerSettled(ok)
  \/ \E url \in StatusRequests : HandleRequest(url)
  \/ ConfigProcessed
  \/ \E ok \in BOOLEAN : ResetupSettled(ok)
  \/ \E i \in 1..MaxInflight : DeviceReply(i)

SpecStatus == InitConfig /\ [][NextStatus]_vars

\* C35: the request audio/<id>/status for a configured zone is answered under
\* status_result with a list of one element, the Track the registry holds for
\* that zone and no other; and the Track the registry holds for a zone is the
\* one its most recent successful updateZoneTrack left, that is, no step
\* without such an update changes it.
C35_StatusIsLastUpdate ==
  /\ [][(/\ last'.op = "handleRequest" /\ last'.route = "status"
          /\ \E id \in DOMAIN zone : last'.url = <<"audio", "/", id, "/", "status">>)
        => LET id == last'.url[3]
           IN last'.response =
                Response(last'.url, <<"status">>, <<JsonStringify(zone[id].track)>>)]_vars
  /\ [][\A id \in DOMAIN zone :
          (id \in DOMAIN zone' /\ zone'[id].track # zone[id].track)
            => /\ bcast' # <<>>
               /\ bcast'[Len(bcast')] = AudioEventMessage(zone'[id].track)]_vars

----------------------------------------------------------------------------
(* The set of open connections over the life of each connection: C36 *)

NextConnections ==
  \/ SetupStart
  \/ \E c \in Conns : WsConnect(c)
  \/ \E c \in Conns : WsDrop(c)
  \/ \E c \in Conns : WsClose(c)
  \/ \E id \in {"14", "15"}, p \in {[volume |-> Num(20)], [mode |-> Str("play")]} :
       UpdateTrackCall(id, p)

SpecConnections == InitRegistry /\ [][NextConnections]_vars

\* C36: the set of connections changes only when a connect event is handled,
\* which adds that connection, and when a close event is handled, which
\* removes it, so that it holds the connections that have connected and whose
\* close event is still to be handled; a connection outside the set gets no
\* broadcast; and a successful updateZoneTrack sends its message to every
\* connection of the set that is connected.
C36_OpenSetExact ==
  /\ [](\A c \in Conns : connected[c] => c \in wsConnections)
  /\ [][/\ last'.op = "wsConnect" => wsConnections' = wsConnections \cup {last'.conn}
        /\ last'.op = "wsClose" =>
             (last'.conn \in wsConnections /\ wsConnections' = wsConnections \ {last'.conn})
        /\ last'.op \notin {"wsConnect", "wsClose"} => wsConnections' = wsConnections]_vars
  /\ [](\A c \in Conns \ wsConnections : delivered[c] = <<>>)
  /\ []((last.op = "updateTrack" /\ last.ret = TRUE) =>
          \A c \in wsConnections :
            connected[c] => delivered[c] = <<AudioEventMessage(zone[last.id].track)>>)

\* an update while one connection is open and the other has been closed
C36_Witness ==
  /\ last.op = "updateTrack" /\ last.ret = TRUE
  /\ wsConnections = {1} /\ connected[1] /\ ~connected[2]
  /\ delivered[1] = <<AudioEventMessage(zone[last.id].track)>> /\ delivered[2] = <<>>

----------------------------------------------------------------------------
(* From startup to the first requests: C37 *)

StartupRequests ==
  { <<"audio", "/", "14", "/", "status">>, <<"audio", "/", "15", "/", "status">>,
    ZoneCommand("15", <<"play", "/", "0">>), GroupCommand(<<"14", ",", "15">>) }

NextStartup ==
  \/ SetupStart
  \/ \E ok \in BOOLEAN : ListenerSettled(ok)
  \/ StartWebServers
  \/ \E c \in Conns : Accept(c)
  \/ \E c \in Conns : WsDrop(c)
  \/ \E c \in Conns : WsClose(c)
  \/ \E c \in Conns, url \in StartupRequests : WsRequest(c, url)
  \/ \E i \in 1..MaxInflight : DeviceReply(i)

SpecStartup ==
  InitWith({<<"14", "15">>}, {[backend |-> "BackendBeolink", ip |-> "10.0.0.7"]})
    /\ [][NextStartup]_vars

\* C37: whenever a request of a connection is handled, every configured zone
\* has its record in the registry.
C37_ZonesBeforeRequests ==
  last.op = "wsRequest" => \A id \in SeqToSet(players) : id \in DOMAIN zone

----------------------------------------------------------------------------
(* The range of the volume: C38 *)

\* player.max_volume of every zone record
max_volume == 100

\* C38: in every state the volume of every zone's Track is a number from 0 to
\* max_volume.
C38_VolumeInDeviceRange ==
  \A id \in DOMAIN zone :
    /\ zone[id].track.volume.t = "number"
    /\ zone[id].track.volume.n >= 0
    /\ zone[id].track.volume.n <= max_volume

----------------------------------------------------------------------------
(* emptyCommand on its own, over request texts of up to three segments: C39 *)

Segments == {<<"audio">>, <<"new">>, <<"14">>, <<"LMS">>, <<>>, <<"14", ",", "15">>}

GroupExample == GroupCommand(<<"14", ",", "14", ",", "15">>)

EnvelopeUrls ==
  Segments
  \cup {a \o <<"/">> \o b : a, b \in Segments}
  \cup {a \o <<"/">> \o b \o <<"/">> \o c : a, b, c \in Segments}
  \cup {GroupExample}

\* one call emptyCommand(url, rsp)
EmptyCommandCall(url, rsp) ==
  /\ Commit(World)
  /\ last' = [op |-> "emptyCommand", url |-> url, rsp |-> rsp, ret |-> EmptyCommand(url, rsp)]
  /\ UNCHANGED <<cfgVars, connVars, setupPc, setupIdx>>

NextEnvelope == \E url \in EnvelopeUrls, rsp \in {Null, <<>>} : EmptyCommandCall(url, rsp)

SpecEnvelope == InitRoute /\ [][NextEnvelope]_vars

\* C39: for a request with a segment that starts with a lowercase letter,
\* emptyCommand returns the envelope whose result field is named after the last
\* such segment, holds the given payload, and whose command is the request; the
\* group command audio/cfg/dgroup/update/new/14,14,15 gets "new_result".
C39_LastLowercaseSegment ==
  last.op = "emptyCommand" =>
    LET parts == Split(last.url, "/")
    IN /\ (\E i \in 1..Len(parts) : LowerStart(parts[i])) =>
            \E i \in 1..Len(parts) :
              /\ LowerStart(parts[i])
              /\ \A j \in (i + 1)..Len(parts) : ~LowerStart(parts[j])
              /\ last.ret = [t |-> "envelope", key |-> parts[i] \o <<"_result">>,
                             result |-> last.rsp, command |-> last.url]
       /\ last.url = GroupExample => last.ret.key = <<"new", "_result">>

C39_Witness ==
  /\ last.op = "emptyCommand" /\ last.url = GroupExample
  /\ last.ret.key = <<"new", "_result">> /\ last.ret.command = GroupExample

====
